---- MODULE Spec2Model ----
(***************************************************************************)
(* Lineup prediction engine of football-lineup-bot:                        *)
(*   backend/app/services/lineup_predictor_optimized.py                     *)
(*       (OptimizedLineupPredictor)                                         *)
(*   backend/app/services/lineup_predictor.py (LineupPredictor)             *)
(*                                                                         *)
(*   backend/app/services/prediction.py (PredictionService)                *)
(*   backend/app/services/memory_cache.py (InMemoryCacheService)           *)
(*   backend/app/services/cache_factory.py (get_cache, reset_cache)        *)
(*   backend/app/middleware/rate_limiting.py (DistributedRateLimiter)      *)
(*   backend/app/services/news_analyzer_optimized.py                       *)
(*       (OptimizedNewsAnalyzer._extract_lineup_insights_optimized)        *)
(*                                                                         *)
(* Under Spec, SpecNews, SpecInjury, SpecConfidence and SpecFormation one  *)
(* behaviour is one call of _build_optimized_prediction or of              *)
(* _build_lineup_prediction on inputs drawn by Init; each action is one    *)
(* statement group of the function body, in source order.  Under           *)
(* SpecPredict a behaviour is a sequence of predict_lineup calls on one    *)
(* predictor object, and under SpecService a sequence of get_prediction    *)
(* calls on one PredictionService.  SpecScore and SpecAvailability run the *)
(* optimized and the basic function alone.  SpecCache, SpecFactory,        *)
(* SpecLimiter and SpecExtract each run one of the other components, with  *)
(* its callers interleaved at the awaits of the code.                      *)
(*                                                                         *)
(* Python dicts are functions whose DOMAIN is the set of keys present, so  *)
(* d.get(k, default) is Get(d, k, default) and the empty dict is <<>>.     *)
(* Strings that the code splits or parses (formations) are sequences of    *)
(* one-character strings.  Floats are exact multiples of 1/ONE.            *)
(***************************************************************************)
EXTENDS Integers, Sequences, FiniteSets, TLC

VARIABLES
    predictor,            \* which class handles the call
    pc,                   \* position inside the _build_* function body
    now,                  \* datetime.now(), in hours
    squad,                \* list[dict]
    recent_lineups,       \* list[dict]
    injuries,             \* list[dict]
    news_insights,        \* dict
    player_form,          \* dict[str, float]
    player_scores,        \* dict[str, float]   (optimized)
    formation,            \* str
    starting_xi,          \* list[dict]
    substitutes,          \* list[dict]
    confidence_breakdown, \* dict[str, float]   (optimized)
    available_players,    \* list[dict]         (basic)
    unavailable_players,  \* list[dict]         (basic)
    confidence,           \* float              (basic)
    result,               \* what the _build_* call returned or raised
    calls,                \* predict_lineup calls made on the predictor so far
    clock,                \* datetime.now() of predict_lineup, in seconds
    request,              \* the arguments of the predict_lineup call in progress
    cpc,                  \* position inside predict_lineup
    tasks,                \* the awaitables of the call: state and result of each
    prediction_cache,     \* self.prediction_cache: key -> (cached_time, reference)
    heap,                 \* the prediction dicts built so far, by reference
    returned,             \* the references into the heap that callers were handed
    outcome,              \* the dict the last call returned ({} while it runs)
    spc,                  \* position inside PredictionService.get_prediction
    svc_calls,            \* get_prediction calls made so far
    team_name,            \* the argument of the get_prediction call
    svc_cache,            \* the cache behind self.cache: key -> dumped prediction
    prediction_repo,      \* self.prediction_repo: whether there is one, and its rows
    prediction,           \* the PredictionResponse of the call
    svc_result,           \* what get_prediction returned or raised
    svc_trace,            \* what the call did to its collaborators, in order
    _cache,               \* InMemoryCacheService._cache: key -> (value, expiry_time)
    time,                 \* time.time(), in seconds
    last_set,             \* key -> the last set call on it since its delete or clear
    cache_op,             \* the cache call made last: when, on what, what it returned
    _cache_instance,      \* cache_factory._cache_instance
    redis_configured,     \* settings.redis_url is set and is not the default
    constructed,          \* cache objects constructed so far
    closed,               \* the Redis cache objects whose connection was closed
    factory_calls,        \* get_cache and reset_cache calls made so far
    callers,              \* each caller's position inside get_cache or reset_cache
    resets,               \* reset_cache calls begun and finished so far
    got_cache,            \* what the get_cache calls returned, in order
    unix_time,            \* time.time() of the rate limiter's hosts, in seconds
    limit,                \* is_allowed argument
    window,               \* is_allowed argument, in seconds
    zset,                 \* the Redis sorted set under `key`: members with scores
    expire_at,            \* when Redis drops the key (EXPIRE)
    issued,               \* is_allowed calls made so far
    requests,             \* each caller's position inside is_allowed and its locals
    decisions,            \* what the is_allowed calls decided, with what they saw
    news_items,           \* _extract_lineup_insights_optimized argument
    item_no,              \* the news item the extraction loop is at
    raw_insights,         \* `insights` while the loop runs
    lineup_insights       \* the dict the extraction returned ({} before)

\* the state of one _build_* call
buildvars == <<predictor, pc, now, squad, recent_lineups, injuries, news_insights,
               player_form, player_scores, formation, starting_xi, substitutes,
               confidence_breakdown, available_players, unavailable_players,
               confidence, result>>

\* the state of a predictor object and of its predict_lineup calls
callvars == <<calls, clock, request, cpc, tasks, prediction_cache, heap, returned, outcome>>

\* the state of a PredictionService and of its get_prediction calls
svcvars == <<spc, svc_calls, team_name, svc_cache, prediction_repo, prediction, svc_result,
            svc_trace>>

\* the state of an InMemoryCacheService and the record of its calls
cachevars == <<_cache, time, last_set, cache_op>>

\* the predictors and the prediction service
appvars == <<buildvars, callvars, svcvars>>

\* the state of the cache_factory module and of the calls in progress
factoryvars == <<_cache_instance, redis_configured, constructed, closed, factory_calls,
                 callers, resets, got_cache>>

\* the state of Redis under one rate limit key and of the is_allowed calls
limitervars == <<unix_time, limit, window, zset, expire_at, issued, requests, decisions>>

\* the services underneath them
\* the state of one _extract_lineup_insights_optimized call
extractvars == <<news_items, item_no, raw_insights, lineup_insights>>

infravars == <<cachevars, factoryvars, limitervars, extractvars>>

\* everything but the InMemoryCacheService
cache_frame == <<appvars, factoryvars, limitervars, extractvars>>

\* everything but the cache_factory module
factory_frame == <<appvars, cachevars, limitervars, extractvars>>

\* everything but the DistributedRateLimiter
limiter_frame == <<appvars, cachevars, factoryvars, extractvars>>

\* everything but the news extraction
extract_frame == <<appvars, cachevars, factoryvars, limitervars>>

vars == <<appvars, infravars>>

inputs == <<predictor, now, squad, recent_lineups, injuries, news_insights,
            player_form>>

(***************************************************************************)
(* Numbers.  The float 1.0 is ONE units; ONE is divisible by every         *)
(* denominator the code divides by within the bounds (len(recent_lineups), *)
(* 20, 3, 5, 24, 100), so every quotient below is exact.                   *)
(***************************************************************************)
ONE == 100 * 1200

Pct(n) == (n * ONE) \div 100

\* weight * value for a weight given in hundredths
Weighted(w, value) == (w * value) \div 100

Min(a, b) == IF a <= b THEN a ELSE b
Max(a, b) == IF a >= b THEN a ELSE b

(***************************************************************************)
(* dict and list helpers                                                   *)
(***************************************************************************)
EmptyDict == <<>>

\* Python's None where a dict was expected
None == [none |-> TRUE]

Get(d, k, default) == IF k \in DOMAIN d THEN d[k] ELSE default

\* bool(x) of a dict, list or str
Truthy(x) == DOMAIN x # {}

\* seq[:n] for n >= 0
Take(seq, n) == SubSeq(seq, 1, Min(n, Len(seq)))

\* x in seq
InList(x, seq) == \E i \in 1..Len(seq) : seq[i] = x

Range(seq) == {seq[i] : i \in 1..Len(seq)}

RECURSIVE SumSeq(_)
SumSeq(seq) == IF seq = <<>> THEN 0 ELSE Head(seq) + SumSeq(Tail(seq))

(***************************************************************************)
(* str.lower() on the player names of the model.  Names are written        *)
(* "Pnn"; an injury feed may spell the same name "pnn".                    *)
(***************************************************************************)
Names == <<"P01", "P02", "P03", "P04", "P05", "P06", "P07", "P08", "P09", "P10",
           "P11", "P12", "P13", "P14", "P15", "P16", "P17", "P18", "P19", "P20",
           "P21">>

LowerNames == <<"p01", "p02", "p03", "p04", "p05", "p06", "p07", "p08", "p09", "p10",
                "p11", "p12", "p13", "p14", "p15", "p16", "p17", "p18", "p19", "p20",
                "p21">>

Lower(s) ==
    IF \E i \in 1..Len(Names) : Names[i] = s
    THEN LowerNames[CHOOSE i \in 1..Len(Names) : Names[i] = s]
    ELSE s

(***************************************************************************)
(* str.split("-") and int() on formation strings                           *)
(***************************************************************************)
Digits == <<"0", "1", "2", "3", "4", "5", "6", "7", "8", "9">>

IsDigit(c) == \E i \in 1..10 : Digits[i] = c

DigitValue(c) == (CHOOSE i \in 1..10 : Digits[i] = c) - 1

\* The pieces of s between the occurrences of sep; always at least one piece.
RECURSIVE SplitFrom(_, _, _)
SplitFrom(s, sep, piece) ==
    IF s = <<>> THEN <<piece>>
    ELSE IF Head(s) = sep THEN <<piece>> \o SplitFrom(Tail(s), sep, <<>>)
    ELSE SplitFrom(Tail(s), sep, Append(piece, Head(s)))

Split(s, sep) == SplitFrom(s, sep, <<>>)

\* int(part) succeeds on a non-empty run of decimal digits
IsInt(part) == part # <<>> /\ \A i \in 1..Len(part) : IsDigit(part[i])

RECURSIVE ParseInt(_)
ParseInt(part) ==
    IF part = <<>> THEN 0
    ELSE 10 * ParseInt(SubSeq(part, 1, Len(part) - 1)) + DigitValue(part[Len(part)])

(***************************************************************************)
(* OptimizedLineupPredictor: player scoring                                *)
(***************************************************************************)
\* Mutant: a position outside the table counts for nothing.
position_importance_unlisted_zero(position) ==
    CASE position = "Goalkeeper" -> ONE
      [] position = "Defender"   -> Pct(85)
      [] position = "Midfielder" -> Pct(90)
      [] position = "Attacker"   -> Pct(95)
      [] OTHER                   -> 0

position_importance(position) ==
    CASE position = "Goalkeeper" -> ONE
      [] position = "Defender"   -> Pct(85)
      [] position = "Midfielder" -> Pct(90)
      [] position = "Attacker"   -> Pct(95)
      [] OTHER                   -> Pct(50)

\* `player_name in str(player)` for an entry of lineup["players"].  The entries
\* of the model are bare names of one fixed width, so the substring test of
\* the code coincides with equality.
NameInEntry(player_name, entry) == entry = player_name

_calculate_appearance_rate(player_name, lineups) ==
    IF ~Truthy(lineups) THEN Pct(50)
    ELSE LET appearances ==
                 Cardinality({i \in 1..Len(lineups) :
                     \E j \in 1..Len(Get(lineups[i], "players", <<>>)) :
                         NameInEntry(player_name, Get(lineups[i], "players", <<>>)[j])})
         IN  (appearances * ONE) \div Len(lineups)

\* Mutant: a severity outside the table counts as no injury.
severity_map_unknown_fit(severity) ==
    CASE severity = "out"   -> 0
      [] severity = "major" -> Pct(20)
      [] severity = "minor" -> Pct(70)
      [] OTHER              -> ONE

severity_map(severity) ==
    CASE severity = "out"   -> 0
      [] severity = "major" -> Pct(20)
      [] severity = "minor" -> Pct(70)
      [] OTHER              -> Pct(50)

_calculate_injury_impact(player_name, injs) ==
    LET hits == {i \in 1..Len(injs) :
                    Lower(Get(injs[i], "player_name", "")) = Lower(player_name)}
    IN  IF hits = {} THEN ONE
        ELSE LET first == CHOOSE i \in hits : \A j \in hits : i <= j
             IN  severity_map(Get(injs[first], "severity", "minor"))

_calculate_news_score(player_name, news) ==
    LET insights == Get(news, "insights", EmptyDict)
        ruled_out == Get(insights, "ruled_out", EmptyDict)
        likely    == Get(insights, "likely_starters", EmptyDict)
        doubtful  == Get(insights, "doubtful", EmptyDict)
    IN  IF player_name \in DOMAIN ruled_out THEN 0
        ELSE IF player_name \in DOMAIN likely THEN likely[player_name]
        ELSE IF player_name \in DOMAIN doubtful
             THEN Pct(50) - Weighted(30, doubtful[player_name])
        ELSE Pct(50)

age_factor(player) ==
    LET age == Get(player, "age", 25)
    IN  IF 23 <= age /\ age <= 32 THEN ONE ELSE Pct(90)

\* final_score of one squad entry, clamped to [0, 1]
final_score(player, lineups, injs, news, form) ==
    LET player_name == Get(player, "name", "")
        raw == Weighted(15, position_importance(Get(player, "position", "")))
             + Weighted(25, _calculate_appearance_rate(player_name, lineups))
             + Weighted(20, Get(form, player_name, Pct(50)))
             + Weighted(20, _calculate_injury_impact(player_name, injs))
             + Weighted(15, _calculate_news_score(player_name, news))
             + Weighted(5, age_factor(player))
    IN  Min(Max(raw, 0), ONE)

\* scores[player_name] = ...: a later squad entry of the same name overwrites
_calculate_player_scores(sq, lineups, injs, news, form) ==
    [n \in {Get(sq[i], "name", "") : i \in 1..Len(sq)} |->
        LET last == CHOOSE i \in 1..Len(sq) :
                        /\ Get(sq[i], "name", "") = n
                        /\ \A j \in 1..Len(sq) : Get(sq[j], "name", "") = n => j <= i
        IN  final_score(sq[last], lineups, injs, news, form)]

(***************************************************************************)
(* Formation prediction                                                    *)
(***************************************************************************)
DefaultFormation == <<"4", "-", "3", "-", "3">>

formation_hint(news) == Get(Get(news, "insights", EmptyDict), "formation_hints", <<>>)

\* [lineup["formation"] for lineup in recent_lineups if lineup.get("formation")]
RECURSIVE formations_of(_)
formations_of(lineups) ==
    IF lineups = <<>> THEN <<>>
    ELSE (IF Truthy(Get(Head(lineups), "formation", <<>>))
          THEN <<Head(lineups)["formation"]>> ELSE <<>>)
         \o formations_of(Tail(lineups))

Reversed(seq) == [i \in 1..Len(seq) |-> seq[Len(seq) + 1 - i]]

Repeat(x, n) == [i \in 1..n |-> x]

\* for i, formation in enumerate(reversed(formations)):
\*     weighted_formations.extend([formation] * (len(formations) - i))
RECURSIVE weighted_from(_, _)
weighted_from(rev, weight) ==
    IF rev = <<>> THEN <<>>
    ELSE Repeat(Head(rev), weight) \o weighted_from(Tail(rev), weight - 1)

\* Mutant: the weights handed out from the oldest line-up, reversed() left out.
weighted_formations_oldest_first(formations) == weighted_from(formations, Len(formations))

weighted_formations(formations) == weighted_from(Reversed(formations), Len(formations))

Count(x, seq) == Cardinality({i \in 1..Len(seq) : seq[i] = x})

FirstIndex(x, seq) == CHOOSE i \in 1..Len(seq) : seq[i] = x /\ \A j \in 1..(i - 1) : seq[j] # x

\* Counter(seq).most_common(1)[0][0] for a non-empty seq: heapq.nlargest(1, ...)
\* is max() over the counter's items in insertion order, which keeps the first
\* of several maximal counts.
most_common_1(seq) ==
    CHOOSE x \in Range(seq) :
        \A y \in Range(seq) :
            \/ Count(x, seq) > Count(y, seq)
            \/ Count(x, seq) = Count(y, seq) /\ FirstIndex(x, seq) <= FirstIndex(y, seq)

\* Mutant: the recent line-ups consulted before the hint.
_predict_formation_advanced_history_first(lineups, news) ==
    IF Truthy(lineups) /\ Truthy(formations_of(lineups))
    THEN most_common_1(weighted_formations(formations_of(lineups)))
    ELSE IF Truthy(formation_hint(news)) THEN formation_hint(news)
    ELSE DefaultFormation

_predict_formation_advanced(lineups, news) ==
    IF Truthy(formation_hint(news)) THEN formation_hint(news)
    ELSE IF Truthy(lineups) /\ Truthy(formations_of(lineups))
         THEN most_common_1(weighted_formations(formations_of(lineups)))
    ELSE DefaultFormation

_predict_formation(lineups, news) ==
    IF Truthy(formation_hint(news)) THEN formation_hint(news)
    ELSE IF Truthy(lineups) /\ Truthy(formations_of(lineups))
         THEN most_common_1(formations_of(lineups))
    ELSE DefaultFormation

(***************************************************************************)
(* OptimizedNewsAnalyzer._extract_lineup_insights_optimized: the formation *)
(* hint.  A match of one of formation_patterns yields its groups, each one *)
(* digit of the pattern's character class; the optional fourth group of    *)
(* the first pattern is <<>> when it took no part in the match.            *)
(***************************************************************************)
\* "-".join(g for g in match.groups() if g)
RECURSIVE join_groups(_)
join_groups(groups) ==
    IF groups = <<>> THEN <<>>
    ELSE LET rest == join_groups(Tail(groups))
         IN  IF Head(groups) = <<>> THEN rest
             ELSE IF rest = <<>> THEN Head(groups)
             ELSE Head(groups) \o <<"-">> \o rest

\* the groups a match of formation_patterns can have
formation_pattern_groups ==
    {<<<<d>>, <<m>>, <<f>>, x>> : d \in {"3", "4", "5"},
                                  m \in {"1", "2", "3", "4", "5"},
                                  f \in {"1", "2", "3", "4", "5"},
                                  x \in {<<>>, <<"1">>, <<"2">>, <<"3">>}}

\* the values insights["formation_hints"] can take: None (no news item
\* matched) or the joined groups of the last item that matched
formation_hints_emitted == {<<>>} \cup {join_groups(g) : g \in formation_pattern_groups}

(***************************************************************************)
(* Lineup selection (optimized)                                            *)
(***************************************************************************)
XI_SIZE == 11
BENCH_SIZE == 7

formation_parts(f) == Split(f, "-")

\* int() raises ValueError inside _select_optimal_lineup
parse_raises_optimized(f) ==
    /\ Len(formation_parts(f)) >= 3
    /\ \E k \in 1..3 : ~IsInt(formation_parts(f)[k])

\* <<defenders_needed, midfielders_needed, attackers_needed>>
needed_optimized(f) ==
    IF Len(formation_parts(f)) >= 3
    THEN [k \in 1..3 |-> ParseInt(formation_parts(f)[k])]
    ELSE <<4, 3, 3>>

WithScore(player, score) ==
    [k \in DOMAIN player \cup {"selection_score"} |->
        IF k = "selection_score" THEN score ELSE player[k]]

\* Mutant: a sort that is not stable, an entry moving ahead of earlier entries
\* of the same score.
RECURSIVE InsertByScoreUnstable(_, _)
InsertByScoreUnstable(sorted, p) ==
    IF sorted = <<>> THEN <<p>>
    ELSE IF Head(sorted).selection_score > p.selection_score
         THEN <<Head(sorted)>> \o InsertByScoreUnstable(Tail(sorted), p)
    ELSE <<p>> \o sorted

\* list.sort(key=selection_score, reverse=True): stable, so entries of equal
\* score keep their order
RECURSIVE InsertByScore(_, _)
InsertByScore(sorted, p) ==
    IF sorted = <<>> THEN <<p>>
    ELSE IF Head(sorted).selection_score >= p.selection_score
         THEN <<Head(sorted)>> \o InsertByScore(Tail(sorted), p)
    ELSE <<p>> \o sorted

RECURSIVE SortByScore(_)
SortByScore(seq) ==
    IF seq = <<>> THEN <<>>
    ELSE InsertByScore(SortByScore(SubSeq(seq, 1, Len(seq) - 1)), seq[Len(seq)])

\* the squad entries of one position with score > 0, in squad order
RECURSIVE scored_of_position(_, _, _)
scored_of_position(sq, scores, position) ==
    IF sq = <<>> THEN <<>>
    ELSE LET player == Head(sq)
             score  == Get(scores, Get(player, "name", ""), 0)
         IN  (IF Get(player, "position", "") = position /\ score > 0
              THEN <<WithScore(player, score)>> ELSE <<>>)
             \o scored_of_position(Tail(sq), scores, position)

position_group(sq, scores, position) == SortByScore(scored_of_position(sq, scores, position))

\* [p for p in seq if p not in chosen]
RECURSIVE NotIn(_, _)
NotIn(seq, chosen) ==
    IF seq = <<>> THEN <<>>
    ELSE (IF InList(Head(seq), chosen) THEN <<>> ELSE <<Head(seq)>>) \o NotIn(Tail(seq), chosen)

\* Mutant: the midfield and attack counts of the formation swapped.
picked_by_position_swapped(gk, df, mf, at, need) ==
    Take(gk, 1) \o Take(df, need[1]) \o Take(mf, need[3]) \o Take(at, need[2])

\* starting_xi after the four position picks
picked_by_position(gk, df, mf, at, need) ==
    Take(gk, 1) \o Take(df, need[1]) \o Take(mf, need[2]) \o Take(at, need[3])

\* all_remaining of "Fill remaining spots if needed", sorted
backfill_pool(df, mf, at, xi) ==
    SortByScore(NotIn(df, xi) \o NotIn(mf, xi) \o NotIn(at, xi))

\* starting_xi before the final [:11]
filled_xi(df, mf, at, xi) ==
    IF Len(xi) < XI_SIZE
    THEN xi \o Take(backfill_pool(df, mf, at, xi), XI_SIZE - Len(xi))
    ELSE xi

\* Mutant: the goalkeepers reach the bench without the `not in starting_xi` test.
bench_unfiltered_goalkeepers(gk, df, mf, at, xi) ==
    Take(gk \o NotIn(df, xi) \o NotIn(mf, xi) \o NotIn(at, xi), BENCH_SIZE)

\* the substitutes loop: buckets in order, stopping at seven
bench(gk, df, mf, at, xi) ==
    Take(NotIn(gk, xi) \o NotIn(df, xi) \o NotIn(mf, xi) \o NotIn(at, xi), BENCH_SIZE)

\* <<starting_xi, substitutes>>; defined when the formation parses
_select_optimal_lineup(scores, f, sq) ==
    LET need == needed_optimized(f)
        gk == position_group(sq, scores, "Goalkeeper")
        df == position_group(sq, scores, "Defender")
        mf == position_group(sq, scores, "Midfielder")
        at == position_group(sq, scores, "Attacker")
        xi == filled_xi(df, mf, at, picked_by_position(gk, df, mf, at, need))
    IN  <<Take(xi, XI_SIZE), Take(bench(gk, df, mf, at, xi), BENCH_SIZE)>>

(***************************************************************************)
(* Unavailable players, key insights and confidence (optimized)            *)
(***************************************************************************)
RECURSIVE _get_unavailable_players(_, _, _)
_get_unavailable_players(sq, injs, news) ==
    IF sq = <<>> THEN <<>>
    ELSE LET player == Head(sq)
             player_name == Get(player, "name", "")
             injured == \E i \in 1..Len(injs) :
                            Lower(Get(injs[i], "player_name", "")) = Lower(player_name)
             ruled == player_name \in
                          DOMAIN Get(Get(news, "insights", EmptyDict), "ruled_out", EmptyDict)
             reasons == (IF injured THEN <<"injured">> ELSE <<>>)
                        \o (IF ruled THEN <<"ruled_out_by_news">> ELSE <<>>)
         IN  (IF reasons # <<>> THEN <<[player |-> player, reasons |-> reasons]>> ELSE <<>>)
             \o _get_unavailable_players(Tail(sq), injs, news)

\* starters named in the news insight's doubtful bucket, in lineup order
RECURSIVE doubtful_starters(_, _)
doubtful_starters(xi, news) ==
    IF xi = <<>> THEN <<>>
    ELSE (IF Get(Head(xi), "name", "") \in
                 DOMAIN Get(Get(news, "insights", EmptyDict), "doubtful", EmptyDict)
          THEN <<[insight |-> "starts despite injury doubt", name |-> Head(xi).name]>>
          ELSE <<>>)
         \o doubtful_starters(Tail(xi), news)

_extract_key_insights(xi, injs, news, form) ==
    LET key_injuries == {i \in 1..Len(injs) : Get(injs[i], "severity", "") = "major"}
        high_form == {n \in DOMAIN form : form[n] > Pct(80)}
    IN  Take((IF key_injuries # {}
              THEN <<[insight |-> "key players injured", n |-> Cardinality(key_injuries)]>>
              ELSE <<>>)
             \o doubtful_starters(xi, news)
             \o (IF high_form # {}
                 THEN <<[insight |-> "players in excellent form", n |-> Cardinality(high_form)]>>
                 ELSE <<>>)
             \o (IF Truthy(formation_hint(news))
                 THEN <<[insight |-> "Expected formation", formation |-> formation_hint(news)]>>
                 ELSE <<>>),
             5)

_calculate_confidence_breakdown(sq, injs, news, lineups, form, t) ==
    LET completeness_factors ==
            << IF Len(sq) >= 20 THEN ONE ELSE (Len(sq) * ONE) \div 20,
               IF Len(lineups) >= 3 THEN ONE ELSE (Len(lineups) * ONE) \div 3,
               IF Truthy(injs) THEN ONE ELSE Pct(50),
               IF Truthy(news) THEN ONE ELSE Pct(50),
               IF Truthy(form) THEN ONE ELSE Pct(50) >>
        data_completeness == SumSeq(completeness_factors) \div Len(completeness_factors)
        data_recency ==
            IF "last_update" \in DOMAIN news
            THEN Max(0, ONE - ((t - news["last_update"]) * ONE) \div 24)
            ELSE Pct(30)
        source_reliability == Get(news, "confidence", Pct(50))
        prediction_consistency == Pct(70)
    IN  [data_completeness      |-> data_completeness,
         data_recency           |-> data_recency,
         source_reliability     |-> source_reliability,
         prediction_consistency |-> prediction_consistency,
         overall |-> Weighted(30, data_completeness) + Weighted(25, data_recency)
                     + Weighted(25, source_reliability)
                     + Weighted(20, prediction_consistency)]

(***************************************************************************)
(* LineupPredictor (basic)                                                 *)
(***************************************************************************)
\* Mutant: the names compared letter for letter.
is_injured_exact_case(player, injs) ==
    \E i \in 1..Len(injs) :
        Get(injs[i], "player_name", "") = Get(player, "name", "")

is_injured(player, injs) ==
    \E i \in 1..Len(injs) :
        Lower(Get(injs[i], "player_name", "")) = Lower(Get(player, "name", ""))

is_ruled_out(player, news) ==
    Get(player, "name", "") \in
        DOMAIN Get(Get(news, "insights", EmptyDict), "ruled_out", EmptyDict)

RECURSIVE available_of(_, _, _)
available_of(sq, injs, news) ==
    IF sq = <<>> THEN <<>>
    ELSE (IF is_injured(Head(sq), injs) \/ is_ruled_out(Head(sq), news)
          THEN <<>> ELSE <<Head(sq)>>)
         \o available_of(Tail(sq), injs, news)

RECURSIVE unavailable_of(_, _, _)
unavailable_of(sq, injs, news) ==
    IF sq = <<>> THEN <<>>
    ELSE (IF is_injured(Head(sq), injs) \/ is_ruled_out(Head(sq), news)
          THEN <<[player |-> Head(sq),
                  reason |-> IF is_injured(Head(sq), injs) THEN "injury" ELSE "ruled_out"]>>
          ELSE <<>>)
         \o unavailable_of(Tail(sq), injs, news)

\* int() raises ValueError inside _select_starting_xi
parse_raises_basic(f) ==
    /\ Len(formation_parts(f)) = 3
    /\ \E k \in 1..3 : ~IsInt(formation_parts(f)[k])

\* <<defenders, midfielders, forwards>>
needed_basic(f) ==
    IF Len(formation_parts(f)) = 3
    THEN [k \in 1..3 |-> ParseInt(formation_parts(f)[k])]
    ELSE <<4, 3, 3>>

\* [p for p in players if p.get("position") == position]
RECURSIVE of_position(_, _)
of_position(players, position) ==
    IF players = <<>> THEN <<>>
    ELSE (IF Get(Head(players), "position", "") = position THEN <<Head(players)>> ELSE <<>>)
         \o of_position(Tail(players), position)

_select_starting_xi(available, f) ==
    LET need == needed_basic(f)
        xi == Take(of_position(available, "Goalkeeper"), 1)
              \o Take(of_position(available, "Defender"), need[1])
              \o Take(of_position(available, "Midfielder"), need[2])
              \o Take(of_position(available, "Attacker"), need[3])
        filled == IF Len(xi) < XI_SIZE
                  THEN xi \o Take(NotIn(available, xi), XI_SIZE - Len(xi))
                  ELSE xi
    IN  Take(filled, XI_SIZE)

_select_substitutes(available, xi) == Take(NotIn(available, xi), BENCH_SIZE)

\* Mutant: the cap at 95% left out.
_calculate_confidence_uncapped(squad_size, injuries_count, news_confidence, recent_lineups_count) ==
    Pct(50)
    + (IF squad_size >= 20 THEN Pct(20) ELSE 0)
    + (IF injuries_count > 0 THEN Pct(10) ELSE 0)
    + Weighted(10, news_confidence)
    + (IF recent_lineups_count >= 3 THEN Pct(10) ELSE 0)

_calculate_confidence(squad_size, injuries_count, news_confidence, recent_lineups_count) ==
    Min(Pct(50)
        + (IF squad_size >= 20 THEN Pct(20) ELSE 0)
        + (IF injuries_count > 0 THEN Pct(10) ELSE 0)
        + Weighted(10, news_confidence)
        + (IF recent_lineups_count >= 3 THEN Pct(10) ELSE 0),
        Pct(95))

(***************************************************************************)
(* The two _build_* calls, statement group by statement group              *)
(***************************************************************************)
Pending == [kind |-> "pending"]
Raised(error) == [kind |-> "raised", error |-> error]
Returned(value) == [kind |-> "prediction", value |-> value]

\* Mutant: news_data tells whether a dict was passed, not whether it holds news.
data_sources_optimized_news_given(injs, news, lineups, form) ==
    [squad_data      |-> TRUE,
     injury_data     |-> Len(injs) > 0,
     news_data       |-> TRUE,
     historical_data |-> Len(lineups) > 0,
     form_data       |-> Truthy(form)]

\* the "data_sources" entry of the optimized prediction
data_sources_optimized(injs, news, lineups, form) ==
    [squad_data      |-> TRUE,
     injury_data     |-> Len(injs) > 0,
     news_data       |-> Truthy(news),
     historical_data |-> Len(lineups) > 0,
     form_data       |-> Truthy(form)]

\* the "data_sources" entry of the basic prediction
data_sources_basic(injs, news, lineups) ==
    [squad_data      |-> TRUE,
     injury_data     |-> Len(injs) > 0,
     news_data       |-> Truthy(news),
     historical_data |-> Len(lineups) > 0]

\* await self._calculate_player_scores(...)
\* news_insights.get("insights") of _calculate_news_score raises
\* AttributeError on None, for the first squad entry.
CalculatePlayerScores ==
    /\ predictor = "optimized" /\ pc = "start"
    /\ IF news_insights = None /\ squad # <<>>
       THEN /\ result' = Raised("AttributeError")
            /\ pc' = "done"
            /\ UNCHANGED player_scores
       ELSE /\ player_scores' = _calculate_player_scores(squad, recent_lineups, injuries,
                                                         news_insights, player_form)
            /\ pc' = "formation"
            /\ UNCHANGED result
    /\ UNCHANGED <<inputs, formation, starting_xi, substitutes, confidence_breakdown,
                   available_players, unavailable_players, confidence>>
    /\ UNCHANGED <<callvars, svcvars, infravars>>

\* formation = self._predict_formation_advanced(recent_lineups, news_insights)
PredictFormationAdvanced ==
    /\ predictor = "optimized" /\ pc = "formation"
    /\ formation' = _predict_formation_advanced(recent_lineups, news_insights)
    /\ pc' = "select"
    /\ UNCHANGED <<inputs, player_scores, starting_xi, substitutes, confidence_breakdown,
                   available_players, unavailable_players, confidence, result>>
    /\ UNCHANGED <<callvars, svcvars, infravars>>

\* starting_xi, substitutes = self._select_optimal_lineup(player_scores, formation, squad)
\* A ValueError of int() leaves _build_optimized_prediction.
SelectOptimalLineup ==
    /\ predictor = "optimized" /\ pc = "select"
    /\ IF parse_raises_optimized(formation)
       THEN /\ result' = Raised("ValueError")
            /\ pc' = "done"
            /\ UNCHANGED <<starting_xi, substitutes>>
       ELSE LET selected == _select_optimal_lineup(player_scores, formation, squad)
            IN  /\ starting_xi' = selected[1]
                /\ substitutes' = selected[2]
                /\ pc' = "confidence"
                /\ UNCHANGED result
    /\ UNCHANGED <<inputs, player_scores, formation, confidence_breakdown,
                   available_players, unavailable_players, confidence>>
    /\ UNCHANGED <<callvars, svcvars, infravars>>

\* confidence_breakdown = self._calculate_confidence_breakdown(...)
CalculateConfidenceBreakdown ==
    /\ predictor = "optimized" /\ pc = "confidence"
    /\ confidence_breakdown' = _calculate_confidence_breakdown(squad, injuries, news_insights,
                                                               recent_lineups, player_form, now)
    /\ pc' = "return"
    /\ UNCHANGED <<inputs, player_scores, formation, starting_xi, substitutes,
                   available_players, unavailable_players, confidence, result>>
    /\ UNCHANGED <<callvars, svcvars, infravars>>

\* key_insights = ...; return {...}
ReturnOptimizedPrediction ==
    /\ predictor = "optimized" /\ pc = "return"
    /\ result' = Returned(
           [formation            |-> formation,
            starting_xi          |-> starting_xi,
            substitutes          |-> substitutes,
            unavailable          |-> _get_unavailable_players(squad, injuries, news_insights),
            confidence           |-> confidence_breakdown["overall"],
            confidence_breakdown |-> confidence_breakdown,
            key_insights         |-> _extract_key_insights(starting_xi, injuries,
                                                           news_insights, player_form),
            player_scores        |-> player_scores,
            data_sources         |-> data_sources_optimized(injuries, news_insights,
                                                                recent_lineups, player_form),
            predicted_at         |-> now,
            from_cache           |-> FALSE])
    /\ pc' = "done"
    /\ UNCHANGED <<inputs, player_scores, formation, starting_xi, substitutes,
                   confidence_breakdown, available_players, unavailable_players, confidence>>
    /\ UNCHANGED <<callvars, svcvars, infravars>>

\* "Filter out injured players"
FilterAvailablePlayers ==
    /\ predictor = "basic" /\ pc = "start"
    /\ available_players' = available_of(squad, injuries, news_insights)
    /\ unavailable_players' = unavailable_of(squad, injuries, news_insights)
    /\ pc' = "formation"
    /\ UNCHANGED <<inputs, player_scores, formation, starting_xi, substitutes,
                   confidence_breakdown, confidence, result>>
    /\ UNCHANGED <<callvars, svcvars, infravars>>

\* formation = self._predict_formation(recent_lineups, news_insights)
PredictFormation ==
    /\ predictor = "basic" /\ pc = "formation"
    /\ formation' = _predict_formation(recent_lineups, news_insights)
    /\ pc' = "select"
    /\ UNCHANGED <<inputs, player_scores, starting_xi, substitutes, confidence_breakdown,
                   available_players, unavailable_players, confidence, result>>
    /\ UNCHANGED <<callvars, svcvars, infravars>>

\* starting_xi = self._select_starting_xi(available_players, formation)
\* A ValueError of int() leaves _build_lineup_prediction.
SelectStartingXI ==
    /\ predictor = "basic" /\ pc = "select"
    /\ IF parse_raises_basic(formation)
       THEN /\ result' = Raised("ValueError")
            /\ pc' = "done"
            /\ UNCHANGED starting_xi
       ELSE /\ starting_xi' = _select_starting_xi(available_players, formation)
            /\ pc' = "confidence"
            /\ UNCHANGED result
    /\ UNCHANGED <<inputs, player_scores, formation, substitutes, confidence_breakdown,
                   available_players, unavailable_players, confidence>>
    /\ UNCHANGED <<callvars, svcvars, infravars>>

\* confidence = self._calculate_confidence(...)
CalculateConfidence ==
    /\ predictor = "basic" /\ pc = "confidence"
    /\ confidence' = _calculate_confidence(Len(squad), Len(injuries),
                                           Get(news_insights, "confidence", 0),
                                           Len(recent_lineups))
    /\ pc' = "return"
    /\ UNCHANGED <<inputs, player_scores, formation, starting_xi, substitutes,
                   confidence_breakdown, available_players, unavailable_players, result>>
    /\ UNCHANGED <<callvars, svcvars, infravars>>

\* return {...}, the substitutes selected inside the dict display
ReturnLineupPrediction ==
    /\ predictor = "basic" /\ pc = "return"
    /\ substitutes' = _select_substitutes(available_players, starting_xi)
    /\ result' = Returned(
           [formation    |-> formation,
            starting_xi  |-> starting_xi,
            substitutes  |-> _select_substitutes(available_players, starting_xi),
            unavailable  |-> unavailable_players,
            confidence   |-> confidence,
            data_sources |-> data_sources_basic(injuries, news_insights, recent_lineups),
            predicted_at |-> now])
    /\ pc' = "done"
    /\ UNCHANGED <<inputs, player_scores, formation, starting_xi, confidence_breakdown,
                   available_players, unavailable_players, confidence>>
    /\ UNCHANGED <<callvars, svcvars, infravars>>

Next ==
    \/ CalculatePlayerScores
    \/ PredictFormationAdvanced
    \/ SelectOptimalLineup
    \/ CalculateConfidenceBreakdown
    \/ ReturnOptimizedPrediction
    \/ FilterAvailablePlayers
    \/ PredictFormation
    \/ SelectStartingXI
    \/ CalculateConfidence
    \/ ReturnLineupPrediction

(***************************************************************************)
(* Inputs                                                                  *)
(***************************************************************************)
G == "Goalkeeper"
D == "Defender"
M == "Midfielder"
A == "Attacker"
U == ""

\* A squad as the provider lists it: entry i is named Names[i]; the entries
\* in `young` are 20 years old, those in `ageless` carry no "age" key, the
\* others are 27.
MkSquad(positions, young, ageless) ==
    [i \in 1..Len(positions) |->
        IF i \in ageless
        THEN [id |-> i, name |-> Names[i], position |-> positions[i]]
        ELSE [id |-> i, name |-> Names[i], position |-> positions[i],
              age |-> IF i \in young THEN 20 ELSE 27]]

Squad15       == MkSquad(<<G, G, D, D, D, D, D, M, M, M, M, A, A, A, A>>, {4, 13}, {9})
Squad11       == MkSquad(<<G, D, D, D, D, M, M, M, A, A, A>>, {3}, {})
Squad11TwoGK  == MkSquad(<<G, G, D, D, D, M, M, M, A, A, A>>, {}, {})
Squad12Mixed  == MkSquad(<<D, G, M, A, D, M, A, D, M, A, D, G>>, {1, 12}, {})
Squad12Other  == MkSquad(<<G, D, D, D, U, U, M, M, M, A, A, A>>, {}, {5})
Squad12NoGK   == MkSquad(<<D, D, D, D, D, M, M, M, M, A, A, A>>, {2}, {})
Squad8        == MkSquad(<<G, D, D, M, M, M, A, A>>, {}, {})
Squad9TwoGK   == MkSquad(<<G, G, D, D, D, M, M, A, A>>, {}, {})
Squad20       == MkSquad(<<G, G, D, D, D, D, D, D, M, M, M, M, M, M, M, A, A, A, A, A>>,
                         {5, 20}, {})

NamesOf(sq) == {sq[i].name : i \in 1..Len(sq)}

\* the subsets of S of at most k elements
RECURSIVE SubsetsUpTo(_, _)
SubsetsUpTo(S, k) ==
    IF k = 0 THEN {{}}
    ELSE LET smaller == SubsetsUpTo(S, k - 1)
         IN  smaller \cup {T \cup {x} : T \in smaller, x \in S}

\* the dicts with keys in `keys` (at most k of them) and values in `values`
DictsUpTo(keys, values, k) ==
    UNION {IF K = {} THEN {EmptyDict} ELSE [K -> values] : K \in SubsetsUpTo(keys, k)}

\* the lists over S of length at most k
RECURSIVE SeqsUpTo(_, _)
SeqsUpTo(S, k) ==
    IF k = 0 THEN {<<>>}
    ELSE LET shorter == SeqsUpTo(S, k - 1)
         IN  shorter \cup {Append(q, x) : q \in shorter, x \in S}

F433   == <<"4", "-", "3", "-", "3">>
F442   == <<"4", "-", "4", "-", "2">>
F343   == <<"3", "-", "4", "-", "3">>
F352   == <<"3", "-", "5", "-", "2">>
F541   == <<"5", "-", "4", "-", "1">>
F4231  == <<"4", "-", "2", "-", "3", "-", "1">>
F555   == <<"5", "-", "5", "-", "5">>
F1000  == <<"1", "0", "-", "0", "-", "0">>
F44    == <<"4", "-", "4">>
FFlat  == <<"4", "3", "3">>
FWord  == <<"4", "-", "x", "-", "3">>
FGap   == <<"4", "-", "-", "3">>
NoHint == <<>>

\* analyze_team_news results: the insight dict with its buckets
Insight(ruled_out, likely_starters, doubtful, hint) ==
    [likely_starters |-> likely_starters, doubtful |-> doubtful, ruled_out |-> ruled_out,
     formation_hints |-> hint]

News(insights, conf, last_update) ==
    [insights |-> insights, confidence |-> conf, last_update |-> last_update]

\* the value analyze_team_news returns when it fails
NewsFailed == [insights |-> EmptyDict, confidence |-> 0, sources |-> 0]

NoNews == EmptyDict

Now0 == 100

HintOnly(hint) == News(Insight(EmptyDict, EmptyDict, EmptyDict, hint), Pct(60), Now0 - 2)

Injury(name, severity) == [player_name |-> name, severity |-> severity, status |-> "injured"]

Lineup(f, players) == [formation |-> f, players |-> players]

\* An awaitable of a predict_lineup call.  `placeholder` marks the
\* asyncio.create_task(asyncio.sleep(0)) that stands in for a fetch that is
\* switched off; its result is None.
Unstarted == [state |-> "unstarted", value |-> <<>>, placeholder |-> FALSE]
PendingFetch == [state |-> "pending", value |-> <<>>, placeholder |-> FALSE]
PendingPlaceholder == [state |-> "pending", value |-> <<>>, placeholder |-> TRUE]
Done(task, v) == [state |-> "done", value |-> v, placeholder |-> task.placeholder]
Failed(task) == [state |-> "raised", value |-> <<>>, placeholder |-> task.placeholder]

TaskNames == {"squad", "team_info", "recent_lineups", "form", "fixture", "injuries", "news"}

NoTasks == [f \in TaskNames |-> Unstarted]

\* fixture_id: int | None, as <<n>> or <<>>
NoFixture == <<>>

Request(team_id, fixture_id, use_news, use_injuries, use_form, use_historical) ==
    [team_id |-> team_id, fixture_id |-> fixture_id, use_news |-> use_news,
     use_injuries |-> use_injuries, use_form |-> use_form,
     use_historical |-> use_historical]

\* OptimizedLineupPredictor.__init__ / LineupPredictor.__init__: an empty
\* prediction cache, no call made yet
InitPredictor ==
    /\ calls = 0
    /\ clock = 0
    /\ request = Request(0, NoFixture, TRUE, TRUE, TRUE, TRUE)
    /\ cpc = "idle"
    /\ tasks = NoTasks
    /\ prediction_cache = EmptyDict
    /\ heap = <<>>
    /\ returned = <<>>
    /\ outcome = EmptyDict

\* a new InMemoryCacheService (memory_cache.py line 14), no call made yet
NoCacheOp == [op |-> "none"]

CacheIdle ==
    /\ _cache = EmptyDict
    /\ time = 0
    /\ last_set = EmptyDict
    /\ cache_op = NoCacheOp

\* the cache_factory module as imported (line 67), nobody calling it
FactoryCallers == {"c1", "c2"}

Idle == [at |-> "idle"]

FactoryIdle ==
    /\ _cache_instance = None
    /\ redis_configured = FALSE
    /\ constructed = 0
    /\ closed = {}
    /\ factory_calls = 0
    /\ callers = [c \in FactoryCallers |-> Idle]
    /\ resets = [begun |-> 0, finished |-> 0]
    /\ got_cache = <<>>

\* the hosts that share the rate limiter's Redis
LimiterCallers == {"h1", "h2"}

\* a DistributedRateLimiter on an empty Redis, nobody calling it
LimiterIdle ==
    /\ unix_time = 0
    /\ limit = 1
    /\ window = 1
    /\ zset = {}
    /\ expire_at = 0
    /\ issued = 0
    /\ requests = [c \in LimiterCallers |-> Idle]
    /\ decisions = {}

\* no news extraction under way
ExtractIdle ==
    /\ news_items = <<>>
    /\ item_no = 0
    /\ raw_insights = EmptyDict
    /\ lineup_insights = EmptyDict

InfraIdle == CacheIdle /\ FactoryIdle /\ LimiterIdle /\ ExtractIdle

\* no PredictionService at work
ServiceIdle ==
    /\ spc = "idle"
    /\ svc_calls = 0
    /\ team_name = ""
    /\ svc_cache = EmptyDict
    /\ prediction_repo = [available |-> FALSE, rows |-> <<>>]
    /\ prediction = EmptyDict
    /\ svc_result = Pending
    /\ svc_trace = <<>>

InitComputed ==
    /\ pc = "start"
    /\ player_scores = EmptyDict
    /\ formation = <<>>
    /\ starting_xi = <<>>
    /\ substitutes = <<>>
    /\ confidence_breakdown = EmptyDict
    /\ available_players = <<>>
    /\ unavailable_players = <<>>
    /\ confidence = 0
    /\ result = Pending
    /\ InitPredictor
    /\ ServiceIdle
    /\ InfraIdle

(***************************************************************************)
(* Lineup selection: squads of every shape, formations of every shape and  *)
(* form values that reorder the players within and across the buckets.     *)
(***************************************************************************)
MaxFormEntries == 2

FormValues == {0, ONE}

SelectSquads == {Squad15, Squad11, Squad11TwoGK, Squad12Mixed, Squad12Other,
                 Squad12NoGK, Squad8, Squad9TwoGK}

SelectHints == {NoHint, F343, F541, F4231, F555, FWord}

InitSelect ==
    /\ predictor \in {"optimized", "basic"}
    /\ now = Now0
    /\ squad \in SelectSquads
    /\ recent_lineups = <<>>
    /\ injuries = <<>>
    /\ news_insights \in {NoNews} \cup {HintOnly(h) : h \in SelectHints \ {NoHint}}
    /\ player_form \in IF predictor = "optimized"
                       THEN DictsUpTo(NamesOf(squad), FormValues, MaxFormEntries)
                       ELSE {EmptyDict}
    /\ InitComputed

Spec == InitSelect /\ [][Next]_vars

(***************************************************************************)
(* News: players named in the buckets of the insight, with form values     *)
(* that move the defenders and the first goalkeeper.                       *)
(***************************************************************************)
NewsSquads == {Squad15, Squad12Mixed}

\* the defenders and the first goalkeeper of a squad
DefendersOf(sq) == {sq[i].name : i \in {j \in 1..Len(sq) : sq[j].position = D}}

MoversOf(sq) ==
    DefendersOf(sq)
    \cup {sq[CHOOSE i \in 1..Len(sq) :
                 sq[i].position = G /\ \A j \in 1..(i - 1) : sq[j].position # G].name}

NewsBuckets(sq) ==
    {Insight(ruled, starters, doubts, NoHint) :
        ruled \in DictsUpTo(NamesOf(sq), {0}, 1),
        starters \in {EmptyDict, [P05 |-> Pct(90)]},
        doubts \in {EmptyDict, [P06 |-> Pct(40)]}}

InitNews ==
    /\ predictor \in {"optimized", "basic"}
    /\ now = Now0
    /\ squad \in NewsSquads
    /\ recent_lineups = <<>>
    /\ injuries = <<>>
    /\ news_insights \in {News(b, Pct(60), Now0 - 2) : b \in NewsBuckets(squad)}
    /\ player_form \in IF predictor = "optimized"
                       THEN DictsUpTo(MoversOf(squad), FormValues, MaxFormEntries)
                       ELSE {EmptyDict}
    /\ InitComputed

SpecNews == InitNews /\ [][Next]_vars

(***************************************************************************)
(* Injuries: one record (or two for the same player) against a defender,   *)
(* the first goalkeeper or nobody of the squad, with form values and       *)
(* recent line-ups that move the defenders.                                *)
(***************************************************************************)
InjurySquads == {Squad15, Squad12Mixed}

InjuryLists(sq) ==
    {<<>>}
    \cup {<<Injury(n, s)>> : n \in MoversOf(sq), s \in {"out", "severe"}}
    \cup {<<Injury(Lower(n), "severe")>> : n \in MoversOf(sq)}
    \cup {<<Injury(n, "severe"), Injury(n, "out")>> : n \in MoversOf(sq)}
    \cup {<<Injury("P21", "severe")>>}

\* recent line-ups, oldest first: none, one, or two that differ in their players
InjuryLineups ==
    {<<>>,
     <<Lineup(F433, <<"P01", "P03", "P04", "P05", "P06", "P08", "P09", "P10",
                      "P12", "P13", "P14">>)>>,
     <<Lineup(F433, <<"P01", "P03", "P04", "P05", "P07", "P08", "P09", "P10",
                      "P12", "P13", "P14">>),
       Lineup(F433, <<"P02", "P04", "P05", "P06", "P07", "P08", "P09", "P11",
                      "P12", "P13", "P15">>)>>}

InitInjury ==
    /\ predictor \in {"optimized", "basic"}
    /\ now = Now0
    /\ squad \in InjurySquads
    /\ recent_lineups \in InjuryLineups
    /\ injuries \in InjuryLists(squad)
    /\ news_insights \in {NoNews, HintOnly(F343)}
    /\ player_form \in IF predictor = "optimized"
                       THEN DictsUpTo(DefendersOf(squad), FormValues, MaxFormEntries)
                       ELSE {EmptyDict}
    /\ InitComputed

SpecInjury == InitInjury /\ [][Next]_vars

(***************************************************************************)
(* Confidence: squads around the size of 20, recent line-ups around the    *)
(* count of 3, news of every confidence and age.                           *)
(***************************************************************************)
MaxLineups == 3

Squad21 == MkSquad(<<G, G, D, D, D, D, D, D, M, M, M, M, M, M, M, A, A, A, A, A, A>>,
                   {5, 20}, {})

Squad19 == MkSquad(<<G, G, D, D, D, D, D, D, M, M, M, M, M, M, M, A, A, A, A>>, {5}, {})

ConfidenceSquads == {Squad8, Squad15, Squad19, Squad20, Squad21}

\* news confidences, 1.2 being outside of what analyze_team_news returns
NewsConfidences == {0, Pct(50), Pct(95), ONE, Pct(120)}

\* last_update, Now0 + 12 lying in the future
LastUpdates == {Now0, Now0 - 12, Now0 - 24, Now0 - 36, Now0 + 12}

ConfidenceNews ==
    {NoNews, NewsFailed}
    \cup {News(Insight(EmptyDict, EmptyDict, EmptyDict, NoHint), c, t) :
             c \in NewsConfidences, t \in LastUpdates}

InitConfidence ==
    /\ predictor \in {"optimized", "basic"}
    /\ now = Now0
    /\ squad \in ConfidenceSquads
    /\ recent_lineups \in {Repeat(Lineup(F433, <<>>), n) : n \in 0..MaxLineups}
    /\ injuries \in {<<>>, <<Injury("P03", "minor")>>}
    /\ news_insights \in ConfidenceNews
    /\ player_form \in IF predictor = "optimized"
                       THEN {EmptyDict, [P01 |-> ONE]}
                       ELSE {EmptyDict}
    /\ InitComputed

SpecConfidence == InitConfidence /\ [][Next]_vars

(***************************************************************************)
(* Formation: every list of recent line-ups up to MaxLineups, with and     *)
(* without a formation hint.                                               *)
(***************************************************************************)
FormationLineups ==
    {Lineup(F442, <<>>), Lineup(F433, <<>>), Lineup(F352, <<>>),
     Lineup(<<>>, <<>>), [players |-> <<>>]}

FormationNews == {NoNews, NewsFailed, HintOnly(F343), HintOnly(F433)}

InitFormation ==
    /\ predictor \in {"optimized", "basic"}
    /\ now = Now0
    /\ squad = Squad11
    /\ recent_lineups \in SeqsUpTo(FormationLineups, MaxLineups)
    /\ injuries = <<>>
    /\ news_insights \in FormationNews
    /\ player_form = EmptyDict
    /\ InitComputed

SpecFormation == InitFormation /\ [][Next]_vars

(***************************************************************************)
(* predict_lineup.  A predictor object serves a bounded number of calls,   *)
(* one after the other.  A call runs from one await to the next in one     *)
(* step; between the steps the awaited fetches complete in any order, each *)
(* with any outcome its code can produce.  The locals squad,               *)
(* recent_lineups, injuries, news_insights and player_form of              *)
(* predict_lineup are the variables of those names: they are the arguments *)
(* of the _build_* call, whose statement groups are the actions above.     *)
(***************************************************************************)
MaxCalls == 2

cache_ttl == 600

\* the seconds that pass between a call and the one before it
Delays == IF calls = 0 THEN {0} ELSE {0, cache_ttl}

TeamInfo == [name |-> "arsenal"]

\* get_fixture_by_id returns data["response"][0]: with or without a "date" key
FixtureWithDate == [date |-> "2024-05-01T15:00:00+00:00"]
FixtureWithoutDate == [fixture |-> [date |-> "2024-05-01T15:00:00+00:00"]]

\* analyze_team_news on what the four _collect_* methods deliver (no items):
\* empty buckets, no formation hint, confidence 0.0
NewsCollected == News(Insight(EmptyDict, EmptyDict, EmptyDict, <<>>), 0, Now0)

\* What a fetch can produce.  get_team_squad re-raises as ExternalAPIError;
\* get_team_info, get_fixture_by_id, get_team_injuries and analyze_team_news
\* catch every Exception and return None, None, a list and a dict;
\* _get_recent_lineups_batch and _get_player_form_data return [] and {}.
Outcomes(f, task) ==
    IF task.placeholder THEN {Done(task, None)}
    ELSE CASE f = "squad"          -> {Done(task, Squad11), Done(task, <<>>), Failed(task)}
           [] f = "team_info"      -> {Done(task, TeamInfo), Done(task, None)}
           [] f = "recent_lineups" -> {Done(task, <<>>)}
           [] f = "form"           -> {Done(task, EmptyDict)}
           [] f = "fixture"        -> {Done(task, None), Done(task, FixtureWithDate),
                                       Done(task, FixtureWithoutDate)}
           [] f = "injuries"       -> {Done(task, <<>>), Done(task, <<Injury("P03", "severe")>>)}
           [] f = "news"           -> {Done(task, NewsCollected)}

\* str() of the values an f-string formats
IntStr(n) == IF n < 10 THEN <<Digits[n + 1]>> ELSE <<Digits[(n \div 10) + 1], Digits[(n % 10) + 1]>>
BoolStr(b) == IF b THEN <<"T", "r", "u", "e">> ELSE <<"F", "a", "l", "s", "e">>
FixtureStr(fixture_id) ==
    IF fixture_id = NoFixture THEN <<"N", "o", "n", "e">> ELSE IntStr(fixture_id[1])

\* cache_key = f"{team_id}_{fixture_id}_{use_news}_{use_injuries}"
cache_key(req) ==
    IntStr(req.team_id) \o <<"_">> \o FixtureStr(req.fixture_id) \o <<"_">>
        \o BoolStr(req.use_news) \o <<"_">> \o BoolStr(req.use_injuries)

\* `if cache_key in self.prediction_cache` and the entry is younger than cache_ttl
cache_fresh(req, t) ==
    /\ cache_key(req) \in DOMAIN prediction_cache
    /\ t - prediction_cache[cache_key(req)].cached_time < cache_ttl

\* `if use_news and fixture_id`
wants_fixture(req) ==
    req.use_news /\ req.fixture_id # NoFixture /\ req.fixture_id # <<0>>

Settled(f) == tasks[f].state \in {"done", "raised"}

\* Mutant: asyncio.wait(..., return_when=FIRST_COMPLETED) in place of gather.
gather_returns_first_completed(names, return_exceptions) ==
    \E f \in names : Settled(f)

\* await asyncio.gather(*names, return_exceptions=...): with
\* return_exceptions it returns when every awaitable is settled; without, it
\* also raises as soon as one of them has raised
gather_returns(names, return_exceptions) ==
    \/ \A f \in names : Settled(f)
    \/ ~return_exceptions /\ \E f \in names : tasks[f].state = "raised"

\* results[i] if not isinstance(results[i], Exception) else default
result_or(f, default) == IF tasks[f].state = "raised" THEN default ELSE tasks[f].value

computed == <<player_scores, formation, starting_xi, substitutes, confidence_breakdown,
              available_players, unavailable_players, confidence, result>>

locals == <<squad, recent_lineups, injuries, news_insights, player_form>>

\* no _build_* call in progress, nothing computed
BuildIdle ==
    /\ pc' = "idle"
    /\ player_scores' = EmptyDict
    /\ formation' = <<>>
    /\ starting_xi' = <<>>
    /\ substitutes' = <<>>
    /\ confidence_breakdown' = EmptyDict
    /\ available_players' = <<>>
    /\ unavailable_players' = <<>>
    /\ confidence' = 0
    /\ result' = Pending

\* a caller invokes predict_lineup(req) dt seconds after the previous call
Enter(req, dt) ==
    /\ cpc = "idle"
    /\ calls < MaxCalls
    /\ calls' = calls + 1
    /\ clock' = clock + dt
    /\ request' = req

\* `return value`.  A dict that the predictor keeps a reference to is handed
\* out by reference (ref > 0): `returned` records the reference and the value
\* the caller reads through it at that moment.
Hand(req, ref, value, hit) ==
    /\ outcome' = value
    /\ returned' = IF ref = 0 THEN returned
                   ELSE Append(returned, [request |-> req, ref |-> ref, value |-> value,
                                          hit |-> hit])
    /\ cpc' = "idle"

\* return {"error": ...}, directly or from the except clause
ReturnError(error) ==
    /\ Hand(request, 0, [error |-> error], FALSE)
    /\ UNCHANGED <<calls, clock, request, tasks, prediction_cache, heap>>

\* the call of _build_optimized_prediction / _build_lineup_prediction begins
StartBuild ==
    /\ cpc' = "build"
    /\ pc' = "start"
    /\ UNCHANGED <<calls, clock, request, prediction_cache, heap, returned, outcome, computed,
                   predictor, now>>

(***************************************************************************)
(* OptimizedLineupPredictor.predict_lineup                                 *)
(***************************************************************************)
Requests ==
    {Request(1, <<7>>, TRUE, TRUE, TRUE, TRUE),
     Request(2, <<7>>, TRUE, TRUE, TRUE, TRUE),
     Request(1, NoFixture, TRUE, TRUE, TRUE, TRUE),
     Request(1, <<7>>, FALSE, TRUE, TRUE, TRUE),
     Request(1, <<7>>, TRUE, FALSE, TRUE, TRUE),
     Request(1, <<7>>, TRUE, TRUE, FALSE, TRUE),
     Request(1, <<7>>, TRUE, TRUE, TRUE, FALSE),
     Request(1, NoFixture, FALSE, FALSE, TRUE, TRUE)}

\* lines 44-51: the cached dict is marked and handed out again
CacheHit ==
    \E req \in Requests, dt \in Delays :
        /\ predictor = "optimized"
        /\ Enter(req, dt)
        /\ cache_fresh(req, clock + dt)
        /\ LET ref == prediction_cache[cache_key(req)].ref
               marked == [heap EXCEPT ![ref].data.from_cache = TRUE]
           IN  /\ heap' = marked
               /\ Hand(req, ref, marked[ref].data, TRUE)
        /\ UNCHANGED <<tasks, prediction_cache, buildvars>>
    /\ UNCHANGED <<svcvars, infravars>>

\* lines 44-74: no fresh entry; the first gather is awaited
CacheMiss ==
    \E req \in Requests, dt \in Delays :
        /\ predictor = "optimized"
        /\ Enter(req, dt)
        /\ ~cache_fresh(req, clock + dt)
        /\ tasks' = [NoTasks EXCEPT
                        !["squad"] = PendingFetch,
                        !["team_info"] = PendingFetch,
                        !["recent_lineups"] = IF req.use_historical THEN PendingFetch
                                              ELSE PendingPlaceholder,
                        !["form"] = IF req.use_form THEN PendingFetch
                                    ELSE PendingPlaceholder]
        /\ cpc' = "gather1"
        /\ BuildIdle
        /\ squad' = <<>> /\ recent_lineups' = <<>> /\ injuries' = <<>>
        /\ news_insights' = EmptyDict /\ player_form' = EmptyDict
        /\ outcome' = EmptyDict
        /\ UNCHANGED <<predictor, now, prediction_cache, heap, returned>>
    /\ UNCHANGED <<svcvars, infravars>>

\* an awaited fetch or placeholder finishes
FetchCompletes ==
    \E f \in TaskNames :
        /\ tasks[f].state = "pending"
        /\ \E o \in Outcomes(f, tasks[f]) : tasks' = [tasks EXCEPT ![f] = o]
        /\ UNCHANGED <<calls, clock, request, cpc, prediction_cache, heap, returned, outcome,
                       buildvars>>
    /\ UNCHANGED <<svcvars, infravars>>

\* lines 76-101, from the first gather to the next await
Gather1Returns ==
    /\ predictor = "optimized" /\ cpc = "gather1"
    /\ gather_returns({"squad", "team_info", "recent_lineups", "form"}, TRUE)
    /\ LET fetched   == result_or("squad", <<>>)
           team_info == result_or("team_info", EmptyDict)
       IN  IF fetched = <<>>
           THEN ReturnError("Could not fetch squad data") /\ UNCHANGED buildvars
           ELSE IF team_info = None
           THEN ReturnError("AttributeError") /\ UNCHANGED buildvars
           ELSE /\ squad' = fetched
                /\ recent_lineups' = IF request.use_historical
                                     THEN result_or("recent_lineups", <<>>) ELSE <<>>
                /\ player_form' = IF request.use_form
                                  THEN result_or("form", EmptyDict) ELSE EmptyDict
                /\ injuries' = <<>>
                /\ news_insights' = EmptyDict
                /\ IF ~(request.use_injuries \/ request.use_news)
                   THEN StartBuild /\ UNCHANGED tasks
                   ELSE /\ IF wants_fixture(request)
                           THEN /\ tasks' = [tasks EXCEPT !["news"] = PendingPlaceholder,
                                                          !["fixture"] = PendingFetch]
                                /\ cpc' = "fixture"
                           ELSE /\ tasks' = [tasks EXCEPT
                                       !["news"] = PendingPlaceholder,
                                       !["injuries"] = IF request.use_injuries
                                                       THEN PendingFetch
                                                       ELSE PendingPlaceholder]
                                /\ cpc' = "gather2"
                        /\ UNCHANGED <<calls, clock, request, prediction_cache, heap,
                                       returned, outcome, computed, predictor, now,
                                       pc>>
    /\ UNCHANGED <<svcvars, infravars>>

\* lines 101-106: the fixture is there; news_task becomes the news fetch
\* when the fixture was found, and the second gather is awaited
FixtureReturns ==
    /\ predictor = "optimized" /\ cpc = "fixture"
    /\ Settled("fixture")
    /\ LET fixture_info == tasks["fixture"].value
       IN  IF fixture_info # None /\ "date" \notin DOMAIN fixture_info
           THEN ReturnError("ValueError")
           ELSE /\ tasks' = [tasks EXCEPT
                       !["news"] = IF fixture_info # None THEN PendingFetch ELSE @,
                       !["injuries"] = IF request.use_injuries THEN PendingFetch
                                       ELSE PendingPlaceholder]
                /\ cpc' = "gather2"
                /\ UNCHANGED <<calls, clock, request, prediction_cache, heap, returned, outcome>>
    /\ UNCHANGED buildvars
    /\ UNCHANGED <<svcvars, infravars>>

\* lines 106-121: the results of the second gather, then the build
Gather2Returns ==
    /\ predictor = "optimized" /\ cpc = "gather2"
    /\ gather_returns({"injuries", "news"}, FALSE)
    /\ IF \E f \in {"injuries", "news"} : tasks[f].state = "raised"
       THEN ReturnError("Exception") /\ UNCHANGED buildvars
       ELSE /\ injuries' = IF request.use_injuries THEN tasks["injuries"].value ELSE injuries
            /\ news_insights' = IF request.use_news THEN tasks["news"].value
                                ELSE news_insights
            /\ StartBuild
            /\ UNCHANGED <<tasks, squad, recent_lineups, player_form>>
    /\ UNCHANGED <<svcvars, infravars>>

\* lines 123-130: the prediction is cached and returned, by reference; an
\* exception of the build is turned into an error dict
BuildReturns ==
    /\ predictor = "optimized" /\ cpc = "build" /\ pc = "done"
    /\ IF result.kind = "raised"
       THEN ReturnError(result.error)
       ELSE LET ref == Len(heap) + 1
                key == cache_key(request)
            IN  /\ heap' = Append(heap, [data |-> result.value, origin |-> request])
                /\ prediction_cache' =
                       [k \in DOMAIN prediction_cache \cup {key} |->
                           IF k = key THEN [cached_time |-> clock, ref |-> ref]
                           ELSE prediction_cache[k]]
                /\ Hand(request, ref, result.value, FALSE)
                /\ UNCHANGED <<calls, clock, request, tasks>>
    /\ UNCHANGED buildvars
    /\ UNCHANGED <<svcvars, infravars>>

(***************************************************************************)
(* LineupPredictor.predict_lineup: one await after the other.              *)
(* _get_recent_lineups returns [] without suspending.                      *)
(***************************************************************************)
\* use_form and use_historical are no parameters of this predict_lineup
BasicRequests == {req \in Requests : req.use_form /\ req.use_historical}

\* `team_name` is bound only on the use_injuries path
team_name_bound == request.use_injuries

\* lines 43-46: the news branch, up to its first await or to the build
NewsBranch ==
    IF wants_fixture(request)
    THEN /\ tasks' = [tasks EXCEPT !["fixture"] = PendingFetch]
         /\ cpc' = "fixture"
         /\ UNCHANGED <<calls, clock, request, prediction_cache, heap, returned, outcome, computed,
                        predictor, now, pc>>
    ELSE StartBuild /\ UNCHANGED tasks

\* lines 27-29: squad = await self.api_client.get_team_squad(team_id)
CallBasic ==
    \E req \in BasicRequests :
        /\ predictor = "basic"
        /\ Enter(req, 0)
        /\ tasks' = [NoTasks EXCEPT !["squad"] = PendingFetch]
        /\ cpc' = "squad"
        /\ BuildIdle
        /\ squad' = <<>> /\ recent_lineups' = <<>> /\ injuries' = <<>>
        /\ news_insights' = EmptyDict /\ player_form' = EmptyDict
        /\ outcome' = EmptyDict
        /\ UNCHANGED <<predictor, now, prediction_cache, heap, returned>>
    /\ UNCHANGED <<svcvars, infravars>>

\* lines 30-39
BasicAfterSquad ==
    /\ predictor = "basic" /\ cpc = "squad"
    /\ Settled("squad")
    /\ IF tasks["squad"].state = "raised"
       THEN ReturnError("ExternalAPIError") /\ UNCHANGED buildvars
       ELSE IF tasks["squad"].value = <<>>
       THEN ReturnError("Could not fetch squad data") /\ UNCHANGED buildvars
       ELSE /\ squad' = tasks["squad"].value
            /\ recent_lineups' = <<>>
            /\ injuries' = <<>>
            /\ news_insights' = EmptyDict
            /\ UNCHANGED player_form
            /\ IF request.use_injuries
               THEN /\ tasks' = [tasks EXCEPT !["team_info"] = PendingFetch]
                    /\ cpc' = "team_info"
                    /\ UNCHANGED <<calls, clock, request, prediction_cache, heap, returned, outcome,
                                   computed, predictor, now, pc>>
               ELSE NewsBranch
    /\ UNCHANGED <<svcvars, infravars>>

\* lines 39-41: team_info.get("name", "") raises AttributeError on None
BasicAfterTeamInfo ==
    /\ predictor = "basic" /\ cpc = "team_info"
    /\ Settled("team_info")
    /\ IF tasks["team_info"].value = None
       THEN ReturnError("AttributeError")
       ELSE /\ tasks' = [tasks EXCEPT !["injuries"] = PendingFetch]
            /\ cpc' = "injuries"
            /\ UNCHANGED <<calls, clock, request, prediction_cache, heap, returned, outcome>>
    /\ UNCHANGED buildvars
    /\ UNCHANGED <<svcvars, infravars>>

\* lines 41-46
BasicAfterInjuries ==
    /\ predictor = "basic" /\ cpc = "injuries"
    /\ Settled("injuries")
    /\ injuries' = tasks["injuries"].value
    /\ NewsBranch
    /\ UNCHANGED <<squad, recent_lineups, news_insights, player_form>>
    /\ UNCHANGED <<svcvars, infravars>>

\* lines 46-51: datetime.fromisoformat("") raises ValueError; the name
\* team_name raises UnboundLocalError when the injury branch was skipped
BasicAfterFixture ==
    /\ predictor = "basic" /\ cpc = "fixture"
    /\ Settled("fixture")
    /\ LET fixture_info == tasks["fixture"].value
       IN  IF fixture_info = None
           THEN StartBuild /\ UNCHANGED <<tasks, locals>>
           ELSE IF "date" \notin DOMAIN fixture_info
           THEN ReturnError("ValueError") /\ UNCHANGED buildvars
           ELSE IF ~team_name_bound
           THEN ReturnError("UnboundLocalError") /\ UNCHANGED buildvars
           ELSE /\ tasks' = [tasks EXCEPT !["news"] = PendingFetch]
                /\ cpc' = "news"
                /\ UNCHANGED <<calls, clock, request, prediction_cache, heap, returned, outcome,
                               buildvars>>
    /\ UNCHANGED <<svcvars, infravars>>

\* lines 49-54
BasicAfterNews ==
    /\ predictor = "basic" /\ cpc = "news"
    /\ Settled("news")
    /\ news_insights' = tasks["news"].value
    /\ StartBuild
    /\ UNCHANGED <<tasks, squad, recent_lineups, injuries, player_form>>
    /\ UNCHANGED <<svcvars, infravars>>

\* lines 54-65: the dict _build_lineup_prediction built is returned; nothing
\* keeps a reference to it
BasicBuildReturns ==
    /\ predictor = "basic" /\ cpc = "build" /\ pc = "done"
    /\ IF result.kind = "raised"
       THEN ReturnError(result.error)
       ELSE /\ Hand(request, 0, result.value, FALSE)
            /\ UNCHANGED <<calls, clock, request, tasks, prediction_cache, heap>>
    /\ UNCHANGED buildvars
    /\ UNCHANGED <<svcvars, infravars>>

NextPredict ==
    \/ CacheHit
    \/ CacheMiss
    \/ FetchCompletes
    \/ Gather1Returns
    \/ FixtureReturns
    \/ Gather2Returns
    \/ BuildReturns
    \/ CallBasic
    \/ BasicAfterSquad
    \/ BasicAfterTeamInfo
    \/ BasicAfterInjuries
    \/ BasicAfterFixture
    \/ BasicAfterNews
    \/ BasicBuildReturns
    \/ CalculatePlayerScores
    \/ PredictFormationAdvanced
    \/ SelectOptimalLineup
    \/ CalculateConfidenceBreakdown
    \/ ReturnOptimizedPrediction
    \/ FilterAvailablePlayers
    \/ PredictFormation
    \/ SelectStartingXI
    \/ CalculateConfidence
    \/ ReturnLineupPrediction

InitPredict ==
    /\ predictor \in {"optimized", "basic"}
    /\ now = Now0
    /\ pc = "idle"
    /\ squad = <<>>
    /\ recent_lineups = <<>>
    /\ injuries = <<>>
    /\ news_insights = EmptyDict
    /\ player_form = EmptyDict
    /\ player_scores = EmptyDict
    /\ formation = <<>>
    /\ starting_xi = <<>>
    /\ substitutes = <<>>
    /\ confidence_breakdown = EmptyDict
    /\ available_players = <<>>
    /\ unavailable_players = <<>>
    /\ confidence = 0
    /\ result = Pending
    /\ InitPredictor
    /\ ServiceIdle
    /\ InfraIdle

SpecPredict == InitPredict /\ [][NextPredict]_vars

(***************************************************************************)
(* PredictionService (backend/app/services/prediction.py).  get_prediction *)
(* runs from one await to the next in one step; the cache and the          *)
(* repository are the service's collaborators, each write of theirs either *)
(* succeeds or raises.                                                     *)
(***************************************************************************)
Player(name, position) == [name |-> name, position |-> position]

\* squads as get_team_squad delivers them: positions after _map_position
ApiSquad(positions) == [i \in 1..Len(positions) |-> Player(Names[i], positions[i])]

ApiSquad11TwoGK == ApiSquad(<<"GK", "GK", "DEF", "DEF", "DEF", "MID", "MID", "MID",
                              "FW", "FW", "FW">>)
ApiSquad14 == ApiSquad(<<"CB", "GK", "RB", "LB", "CB", "DEF", "CDM", "CM", "CAM", "MID",
                         "RW", "ST", "FW", "SUB">>)
ApiSquad9 == ApiSquad(<<"GK", "CB", "CB", "CM", "CM", "ST", "SUB", "SUB", "GK">>)

\* by_position[pos] for each pos of `order`, concatenated
RECURSIVE by_positions(_, _)
by_positions(sq, order) ==
    IF order = <<>> THEN <<>>
    ELSE SelectSeq(sq, LAMBDA p : p.position = Head(order)) \o by_positions(sq, Tail(order))

DefenderCodes == <<"RB", "LB", "CB", "DEF">>
MidfielderCodes == <<"CDM", "CM", "CAM", "MID">>
ForwardCodes == <<"RW", "LW", "ST", "CF", "FW">>

_select_best_eleven(sq) ==
    LET selected == Take(by_positions(sq, <<"GK">>), 1)
                    \o Take(by_positions(sq, DefenderCodes), 4)
                    \o Take(by_positions(sq, MidfielderCodes), 3)
                    \o Take(by_positions(sq, ForwardCodes), 3)
    IN  Take(IF Len(selected) < XI_SIZE
             THEN selected \o Take(NotIn(sq, selected), XI_SIZE - Len(selected))
             ELSE selected,
             XI_SIZE)

CountOf(lineup, codes) ==
    Cardinality({i \in 1..Len(lineup) :
                    \E k \in 1..Len(codes) : codes[k] = lineup[i].position})

\* str() of an int
SignedStr(n) == IF n < 0 THEN <<"-">> \o IntStr(0 - n) ELSE IntStr(n)

\* PredictionService._predict_formation: f"{defenders}-{midfielders}-{forwards}"
service_predict_formation(lineup) ==
    LET d == CountOf(lineup, DefenderCodes)
        m == CountOf(lineup, MidfielderCodes)
        f == CountOf(lineup, ForwardCodes)
        short == d + m + f < 10
        m2 == IF short /\ m < 3 THEN 3 ELSE m
        d2 == IF short /\ d < 4 THEN 4 ELSE d
        f2 == IF short THEN 10 - d2 - m2 ELSE f
    IN  SignedStr(d2) \o <<"-">> \o SignedStr(m2) \o <<"-">> \o SignedStr(f2)

_generate_mock_lineup ==
    ApiSquad(<<"GK", "LB", "CB", "CB", "RB", "CM", "CM", "CM", "LW", "ST", "RW">>)

PredictionResponse(team, f, lineup, conf, source, cached) ==
    [team |-> team, formation |-> f, lineup |-> lineup, confidence |-> conf,
     source |-> source, cached |-> cached]

MockResponse(team) ==
    PredictionResponse(team, F433, _generate_mock_lineup, Pct(75), "mock", FALSE)

\* what the API client delivers to _fetch_from_api: is_configured, the
\* result of get_last_lineup (a lineup or "raised") and of get_team_squad
ApiStates ==
    {[is_configured |-> FALSE, last_lineup |-> <<>>, last_raised |-> FALSE, squad |-> <<>>]}
    \cup {[is_configured |-> TRUE, last_lineup |-> l, last_raised |-> r, squad |-> sq] :
             l \in {<<>>, _generate_mock_lineup}, r \in BOOLEAN,
             sq \in {<<>>, ApiSquad11TwoGK, ApiSquad14, ApiSquad9}}

\* PredictionService._fetch_from_api; get_team_squad's own failure is
\* covered by the same except clause as get_last_lineup's
_fetch_from_api(team, api) ==
    IF ~api.is_configured THEN MockResponse(team)
    ELSE IF api.last_raised THEN MockResponse(team)
    ELSE IF api.last_lineup # <<>>
    THEN PredictionResponse(team, F442, api.last_lineup, Pct(85), "api-football", FALSE)
    ELSE IF api.squad # <<>>
    THEN LET lineup == _select_best_eleven(api.squad)
         IN  PredictionResponse(team, service_predict_formation(lineup), lineup, Pct(85),
                                "api-football", FALSE)
    ELSE MockResponse(team)

Teams == {"Arsenal", "arsenal"}

\* str.lower() on the team names of the model
LowerTeam(team) == IF team = "Arsenal" THEN "arsenal" ELSE team

\* cache_key = f"prediction:{team_name.lower()}"
service_cache_key(team) == <<"prediction:", LowerTeam(team)>>

\* get_prediction is entered: `cached_data = await self.cache.get(cache_key)`
GetPrediction ==
    \E team \in Teams :
        /\ spc = "idle"
        /\ svc_calls < MaxCalls
        /\ svc_calls' = svc_calls + 1
        /\ team_name' = team
        /\ prediction' = EmptyDict
        /\ svc_result' = Pending
        /\ spc' = "lookup"
        /\ svc_trace' = <<"cache.get">>
        /\ UNCHANGED <<svc_cache, prediction_repo, buildvars, callvars, infravars>>

\* lines 61-73: a cached value is returned marked cached; an entry that has
\* expired, or that the cache could not read, is a miss
CacheLookupReturns ==
    /\ spc = "lookup"
    /\ \E cached_data \in {EmptyDict} \cup
                          (IF service_cache_key(team_name) \in DOMAIN svc_cache
                           THEN {svc_cache[service_cache_key(team_name)]} ELSE {}) :
           IF cached_data # EmptyDict
           THEN /\ prediction' = [cached_data EXCEPT !.cached = TRUE]
                /\ svc_result' = Returned([cached_data EXCEPT !.cached = TRUE])
                /\ spc' = "idle"
           ELSE /\ spc' = "fetch"
                /\ UNCHANGED <<prediction, svc_result>>
    /\ UNCHANGED <<svc_calls, team_name, svc_cache, prediction_repo, svc_trace, buildvars,
                   callvars, infravars>>

\* lines 71-77: prediction = await self._fetch_from_api(team_name), then
\* `await self.cache.set(...)` is awaited
FetchFromApi ==
    /\ spc = "fetch"
    /\ \E api \in ApiStates : prediction' = _fetch_from_api(team_name, api)
    /\ spc' = "store"
    /\ svc_trace' = Append(svc_trace, "_fetch_from_api")
    /\ UNCHANGED <<svc_calls, team_name, svc_cache, prediction_repo, svc_result, buildvars,
                   callvars, infravars>>

\* lines 76-84: cache.set returns or raises; nothing in get_prediction
\* catches what it raises
CacheSetReturns ==
    /\ spc = "store"
    /\ \E raised \in BOOLEAN :
           IF raised
           THEN /\ svc_result' = Raised("Exception")
                /\ spc' = "idle"
                /\ UNCHANGED <<svc_cache, svc_trace>>
           ELSE /\ svc_trace' = Append(svc_trace, "cache.set")
                /\ svc_cache' =
                       [k \in DOMAIN svc_cache \cup {service_cache_key(team_name)} |->
                           IF k = service_cache_key(team_name) THEN prediction
                           ELSE svc_cache[k]]
                /\ IF prediction_repo.available
                   THEN spc' = "persist" /\ UNCHANGED svc_result
                   ELSE spc' = "idle" /\ svc_result' = Returned(prediction)
    /\ UNCHANGED <<svc_calls, team_name, prediction_repo, prediction, buildvars, callvars, infravars>>

\* lines 83-96: prediction_repo.create returns or raises inside the
\* try/except; the prediction is returned either way
RepoCreateReturns ==
    /\ spc = "persist"
    /\ \E raised \in BOOLEAN :
           IF raised THEN UNCHANGED <<prediction_repo, svc_trace>>
           ELSE /\ prediction_repo' =
                       [prediction_repo EXCEPT
                           !.rows = Append(@, [team_name |-> team_name,
                                               formation |-> prediction.formation])]
                /\ svc_trace' = Append(svc_trace, "prediction_repo.create")
    /\ svc_result' = Returned(prediction)
    /\ spc' = "idle"
    /\ UNCHANGED <<svc_calls, team_name, svc_cache, prediction, buildvars, callvars, infravars>>

NextService ==
    \/ GetPrediction
    \/ CacheLookupReturns
    \/ FetchFromApi
    \/ CacheSetReturns
    \/ RepoCreateReturns

\* no predictor at work
PredictorsIdle ==
    /\ predictor = "optimized"
    /\ now = Now0
    /\ squad = <<>>
    /\ recent_lineups = <<>>
    /\ injuries = <<>>
    /\ news_insights = EmptyDict
    /\ player_form = EmptyDict
    /\ pc = "idle"
    /\ player_scores = EmptyDict
    /\ formation = <<>>
    /\ starting_xi = <<>>
    /\ substitutes = <<>>
    /\ confidence_breakdown = EmptyDict
    /\ available_players = <<>>
    /\ unavailable_players = <<>>
    /\ confidence = 0
    /\ result = Pending
    /\ InitPredictor

InitService ==
    /\ prediction_repo \in {[available |-> a, rows |-> <<>>] : a \in BOOLEAN}
    /\ spc = "idle"
    /\ svc_calls = 0
    /\ team_name = ""
    /\ svc_cache = EmptyDict
    /\ prediction = EmptyDict
    /\ svc_result = Pending
    /\ svc_trace = <<>>
    /\ PredictorsIdle
    /\ InfraIdle

\* neither a predictor nor the prediction service at work
AppIdle == PredictorsIdle /\ ServiceIdle

SpecService == InitService /\ [][NextService]_vars

(***************************************************************************)
(* InMemoryCacheService (backend/app/services/memory_cache.py).  No method *)
(* of it awaits anything, so each call is one step.  time.time() is read   *)
(* as a clock that does not run backwards; it moves between the calls.     *)
(***************************************************************************)
MaxSeconds == 2

\* settings.cache_ttl_seconds
default_ttl == 300

\* the instants at which the cache is called: the first seconds after its
\* construction and the first seconds after default_ttl has gone by
Instants == {seconds + wait : seconds \in 0..MaxSeconds, wait \in {0, default_ttl}}

CacheKeys == {"k1", "k2"}
CacheValues == {[team |-> "a"], [team |-> "b"]}

\* the ttl arguments of set that are not None
Ttls == {0, 1}

\* Mutant: an entry is expired from its expiry instant on.
expired_at_instant(current_time, expiry_time) == current_time >= expiry_time

\* time.time() > expiry_time
expired(current_time, expiry_time) == current_time > expiry_time

\* d with d[key] = entry
Put(d, key, entry) == [k \in DOMAIN d \cup {key} |-> IF k = key THEN entry ELSE d[k]]

\* d after del d[key]
Del(d, key) == [k \in DOMAIN d \ {key} |-> d[k]]

\* InMemoryCacheService.get
CacheGet ==
    \E key \in CacheKeys :
        /\ IF key \notin DOMAIN _cache
           THEN /\ cache_op' = [op |-> "get", key |-> key, at |-> time, ret |-> None]
                /\ UNCHANGED _cache
           ELSE IF expired(time, _cache[key].expiry_time)
           THEN /\ _cache' = Del(_cache, key)
                /\ cache_op' = [op |-> "get", key |-> key, at |-> time, ret |-> None]
           ELSE /\ cache_op' = [op |-> "get", key |-> key, at |-> time,
                                ret |-> _cache[key].value]
                /\ UNCHANGED _cache
        /\ UNCHANGED <<time, last_set, cache_frame>>

\* InMemoryCacheService.set, with a ttl or with ttl=None
CacheSet ==
    \E key \in CacheKeys, value \in CacheValues, given \in BOOLEAN, seconds \in Ttls :
        LET ttl == IF given THEN seconds ELSE default_ttl
        IN  /\ ~given => seconds = 0
            /\ _cache' = Put(_cache, key, [value |-> value, expiry_time |-> time + ttl])
            /\ last_set' = Put(last_set, key, [value |-> value, time |-> time, ttl |-> ttl])
            /\ cache_op' = [op |-> "set", key |-> key, at |-> time, value |-> value,
                             ttl |-> ttl]
            /\ UNCHANGED <<time, cache_frame>>

\* InMemoryCacheService.delete
CacheDelete ==
    \E key \in CacheKeys :
        /\ _cache' = IF key \in DOMAIN _cache THEN Del(_cache, key) ELSE _cache
        /\ last_set' = IF key \in DOMAIN last_set THEN Del(last_set, key) ELSE last_set
        /\ cache_op' = [op |-> "delete", key |-> key, deleted |-> key \in DOMAIN _cache]
        /\ UNCHANGED <<time, cache_frame>>

\* InMemoryCacheService.clear
CacheClear ==
    /\ _cache' = EmptyDict
    /\ last_set' = EmptyDict
    /\ cache_op' = [op |-> "clear"]
    /\ UNCHANGED <<time, cache_frame>>

\* InMemoryCacheService.cleanup_expired
CleanupExpired ==
    LET expired_keys == {k \in DOMAIN _cache : expired(time, _cache[k].expiry_time)}
    IN  /\ _cache' = [k \in DOMAIN _cache \ expired_keys |-> _cache[k]]
        /\ cache_op' = [op |-> "cleanup_expired", removed |-> Cardinality(expired_keys)]
        /\ UNCHANGED <<time, last_set, cache_frame>>

\* time passes between two calls
TimePasses ==
    \E later \in Instants :
        /\ later > time
        /\ time' = later
        /\ UNCHANGED <<_cache, last_set, cache_op, cache_frame>>

NextCache ==
    \/ CacheGet
    \/ CacheSet
    \/ CacheDelete
    \/ CacheClear
    \/ CleanupExpired
    \/ TimePasses

InitCache == AppIdle /\ InfraIdle

SpecCache == InitCache /\ [][NextCache]_vars

(***************************************************************************)
(* cache_factory (backend/app/services/cache_factory.py).  Callers run     *)
(* get_cache and reset_cache on one event loop: a call runs alone from one *)
(* suspension to the next, and it is suspended only where it awaits the    *)
(* Redis server (ping, close, flushdb).  An InMemoryCacheService is        *)
(* constructed and cleared without suspension.                             *)
(***************************************************************************)
MaxFactoryCalls == 3

\* the cache objects: the n-th object constructed, of either class
RedisCacheService(n) == [id |-> n, class |-> "RedisCacheService"]
InMemoryCacheService(n) == [id |-> n, class |-> "InMemoryCacheService"]

\* `return _cache_instance` of a get_cache call entered at `entered`
ReturnCache(c, instance, entered) ==
    /\ got_cache' = Append(got_cache, [caller |-> c, instance |-> instance,
                                       entered |-> entered, left |-> resets])
    /\ callers' = [callers EXCEPT ![c] = Idle]

\* lines 59-63 and 78-79: the fallback object is constructed, assigned and
\* returned
FallBack(c, entered) ==
    /\ constructed' = constructed + 1
    /\ _cache_instance' = InMemoryCacheService(constructed + 1)
    /\ ReturnCache(c, InMemoryCacheService(constructed + 1), entered)

\* get_cache up to its first suspension: lines 76-79 and create_cache lines
\* 37-47
GetCache(c) ==
    /\ callers[c] = Idle
    /\ factory_calls < MaxFactoryCalls
    /\ factory_calls' = factory_calls + 1
    /\ IF _cache_instance # None
       THEN /\ ReturnCache(c, _cache_instance, resets)
            /\ UNCHANGED <<_cache_instance, constructed>>
       ELSE IF redis_configured
       THEN /\ constructed' = constructed + 1
            /\ callers' = [callers EXCEPT ![c] =
                              [at |-> "ping", redis_cache |-> RedisCacheService(constructed + 1),
                               entered |-> resets]]
            /\ UNCHANGED <<_cache_instance, got_cache>>
       ELSE FallBack(c, resets)
    /\ UNCHANGED <<redis_configured, closed, resets, factory_frame>>

\* `await redis_cache.ping()` is over: True (lines 48-49, 78-79), False
\* (lines 51-52) or an exception (lines 56-63)
PingReturns(c) ==
    /\ callers[c].at = "ping"
    /\ \E ping \in {"True", "False", "raised"} :
           CASE ping = "True" ->
                    /\ _cache_instance' = callers[c].redis_cache
                    /\ ReturnCache(c, callers[c].redis_cache, callers[c].entered)
                    /\ UNCHANGED constructed
             [] ping = "False" ->
                    /\ callers' = [callers EXCEPT ![c].at = "close"]
                    /\ UNCHANGED <<_cache_instance, constructed, got_cache>>
             [] ping = "raised" -> FallBack(c, callers[c].entered)
    /\ UNCHANGED <<redis_configured, closed, factory_calls, resets, factory_frame>>

\* `await redis_cache.close()` is over, returned or raised
CloseReturns(c) ==
    /\ callers[c].at = "close"
    /\ closed' = closed \cup {callers[c].redis_cache}
    /\ FallBack(c, callers[c].entered)
    /\ UNCHANGED <<redis_configured, factory_calls, resets, factory_frame>>

\* reset_cache up to its first suspension: lines 84-87
ResetCache(c) ==
    /\ callers[c] = Idle
    /\ factory_calls < MaxFactoryCalls
    /\ factory_calls' = factory_calls + 1
    /\ IF _cache_instance = None
       THEN /\ resets' = [begun |-> resets.begun + 1, finished |-> resets.finished + 1]
            /\ UNCHANGED <<_cache_instance, callers>>
       ELSE IF _cache_instance.class = "InMemoryCacheService"
       THEN /\ resets' = [begun |-> resets.begun + 1, finished |-> resets.finished + 1]
            /\ _cache_instance' = None
            /\ UNCHANGED callers
       ELSE /\ resets' = [resets EXCEPT !.begun = @ + 1]
            /\ callers' = [callers EXCEPT ![c] = [at |-> "clear"]]
            /\ UNCHANGED _cache_instance
    /\ UNCHANGED <<redis_configured, constructed, closed, got_cache, factory_frame>>

\* `await _cache_instance.clear()` is over: line 87
ClearReturns(c) ==
    /\ callers[c].at = "clear"
    /\ _cache_instance' = None
    /\ resets' = [resets EXCEPT !.finished = @ + 1]
    /\ callers' = [callers EXCEPT ![c] = Idle]
    /\ UNCHANGED <<redis_configured, constructed, closed, factory_calls, got_cache,
                   factory_frame>>

NextFactory ==
    \E c \in FactoryCallers :
        \/ GetCache(c)
        \/ PingReturns(c)
        \/ CloseReturns(c)
        \/ ResetCache(c)
        \/ ClearReturns(c)

InitFactory ==
    /\ AppIdle
    /\ CacheIdle
    /\ LimiterIdle
    /\ ExtractIdle
    /\ _cache_instance = None
    /\ redis_configured \in BOOLEAN
    /\ constructed = 0
    /\ closed = {}
    /\ factory_calls = 0
    /\ callers = [c \in FactoryCallers |-> Idle]
    /\ resets = [begun |-> 0, finished |-> 0]
    /\ got_cache = <<>>

SpecFactory == InitFactory /\ [][NextFactory]_vars

(***************************************************************************)
(* DistributedRateLimiter (backend/app/middleware/rate_limiting.py).       *)
(* Several hosts call is_allowed on one Redis key.  A call reads           *)
(* time.time() and builds its pipeline, Redis executes the pipeline as one *)
(* transaction some time later, and a denied call removes its entry in a   *)
(* second round trip.  The hosts' clocks agree.                            *)
(***************************************************************************)
MaxRequests == 4
MaxUnixTime == 3

Limits == {1, 2}
Windows == {1, 2}

\* the sorted set as Redis serves it at unix_time: gone once the key expired
Live == IF unix_time >= expire_at THEN {} ELSE zset

\* ZREMRANGEBYSCORE key 0 max
zremrangebyscore(members, max) == {e \in members : ~(0 <= e.score /\ e.score <= max)}

\* ZCARD key
zcard(members) == Cardinality(members)

\* lines 108-124: `now = time.time()`, the pipeline is built and sent
IsAllowed(c) ==
    /\ requests[c] = Idle
    /\ issued < MaxRequests
    /\ issued' = issued + 1
    /\ requests' = [requests EXCEPT ![c] =
                       [at |-> "execute", now |-> unix_time, request_id |-> issued + 1]]
    /\ UNCHANGED <<unix_time, limit, window, zset, expire_at, decisions, limiter_frame>>

\* Redis executes the pipeline (lines 112-122); lines 126-137 follow on the
\* host: an admitted call returns, a denied one sends ZREM
PipelineExecutes(c) ==
    /\ requests[c].at = "execute"
    /\ LET score == requests[c].now
           kept == zremrangebyscore(Live, score - window)
           current_requests == zcard(kept)
           is_allowed == current_requests < limit
       IN  /\ zset' = kept \cup {[member |-> requests[c].request_id, score |-> score]}
           /\ expire_at' = unix_time + window
           /\ decisions' = decisions \cup
                  {[request_id |-> requests[c].request_id, now |-> score,
                    is_allowed |-> is_allowed,
                    within |-> Cardinality({e \in Live : score - window < e.score
                                                         /\ e.score <= score})]}
           /\ requests' = [requests EXCEPT ![c] =
                              IF is_allowed THEN Idle ELSE [@ EXCEPT !.at = "zrem"]]
    /\ UNCHANGED <<unix_time, limit, window, issued, limiter_frame>>

\* Redis executes `ZREM key request_id` (line 131) and the call returns
ZremExecutes(c) ==
    /\ requests[c].at = "zrem"
    /\ zset' = {e \in Live : e.member # requests[c].request_id}
    /\ requests' = [requests EXCEPT ![c] = Idle]
    /\ UNCHANGED <<unix_time, limit, window, expire_at, issued, decisions, limiter_frame>>

\* a second goes by
SecondPasses ==
    /\ unix_time < MaxUnixTime
    /\ unix_time' = unix_time + 1
    /\ UNCHANGED <<limit, window, zset, expire_at, issued, requests, decisions,
                   limiter_frame>>

NextLimiter ==
    \/ \E c \in LimiterCallers :
           \/ IsAllowed(c)
           \/ PipelineExecutes(c)
           \/ ZremExecutes(c)
    \/ SecondPasses

InitLimiter ==
    /\ AppIdle
    /\ CacheIdle
    /\ FactoryIdle
    /\ ExtractIdle
    /\ unix_time = 0
    /\ limit \in Limits
    /\ window \in Windows
    /\ zset = {}
    /\ expire_at = 0
    /\ issued = 0
    /\ requests = [c \in LimiterCallers |-> Idle]
    /\ decisions = {}

SpecLimiter == InitLimiter /\ [][NextLimiter]_vars

(***************************************************************************)
(* OptimizedNewsAnalyzer._extract_lineup_insights_optimized                *)
(* (backend/app/services/news_analyzer_optimized.py).  One behaviour is    *)
(* one call; each pass of the loop over news_items is one step.  A news    *)
(* item is given by what the regular expressions find in its content: the  *)
(* keys of the source table its source contains, for each mentioned player *)
(* the categories with a pattern in the player's context, and the groups   *)
(* of the first formation pattern that matches (<<>> when none does).      *)
(***************************************************************************)
MaxItems == 2

\* self.lineup_patterns[category]["weight"] in hundredths, in dict order
lineup_patterns ==
    <<[category |-> "confirmed_start", weight |-> 90],
      [category |-> "likely_start",    weight |-> 70],
      [category |-> "doubtful",        weight |-> 30],
      [category |-> "ruled_out",       weight |-> 0]>>

\* the weights table of _get_source_weight, in dict order
source_weights ==
    <<[key |-> "official",         weight |-> ONE],
      [key |-> "press_conference", weight |-> Pct(95)],
      [key |-> "bbc",              weight |-> Pct(90)],
      [key |-> "sky",              weight |-> Pct(85)],
      [key |-> "guardian",         weight |-> Pct(85)],
      [key |-> "athletic",         weight |-> Pct(85)],
      [key |-> "telegraph",        weight |-> Pct(80)],
      [key |-> "twitter_verified", weight |-> Pct(70)],
      [key |-> "other",            weight |-> Pct(50)]>>

\* _get_source_weight: the first key of the table that the source contains
_get_source_weight(source) ==
    LET found == {k \in 1..Len(source_weights) : source_weights[k].key \in source}
    IN  IF found = {} THEN Pct(50)
        ELSE source_weights[CHOOSE k \in found : \A j \in found : k <= j].weight

\* Mutant: an entry at its threshold survives.
passes_at_threshold(c, threshold) == c >= threshold

\* `c > threshold` of the threshold filtering (lines 249-253)
passes(c, threshold) == c > threshold

\* {p: c for p, c in bucket.items() if c > threshold}
filtered(bucket, threshold) ==
    [p \in {q \in DOMAIN bucket : passes(bucket[q], threshold)} |-> bucket[p]]

\* the bucket a category feeds (lines 220-231)
bucket_of(category) ==
    IF category \in {"confirmed_start", "likely_start"} THEN "likely_starters" ELSE category

\* a bucket after the passes over one item's players and patterns: every
\* (player, category) found is max()ed into the defaultdict
bucket_after(bucket, name, item) ==
    LET source_weight == _get_source_weight(item.source)
        hits(p) == {k \in 1..Len(lineup_patterns) :
                       /\ lineup_patterns[k].category \in item.mentions[p]
                       /\ bucket_of(lineup_patterns[k].category) = name}
        touched == {p \in DOMAIN item.mentions : hits(p) # {}}
        best(p) == LET k == CHOOSE k \in hits(p) :
                                \A j \in hits(p) : lineup_patterns[j].weight
                                                   <= lineup_patterns[k].weight
                   IN  Weighted(lineup_patterns[k].weight, source_weight)
    IN  [p \in DOMAIN bucket \cup touched |->
            IF p \notin touched THEN bucket[p]
            ELSE Max(Get(bucket, p, 0), best(p))]

NewsItem(source, mentions, groups) ==
    [source |-> source, mentions |-> mentions, formation_groups |-> groups]

\* one player in one category, or nobody
MentionsOf(category) ==
    IF category = "" THEN EmptyDict ELSE [p \in {Names[1]} |-> {category}]

G442 == <<<<"4">>, <<"4">>, <<"2">>, <<>>>>
G352 == <<<<"3">>, <<"5">>, <<"2">>, <<>>>>

NewsItems ==
    {NewsItem(source, MentionsOf(category), groups) :
        source \in {{"official"}, {"sky", "official"}, {"twitter_verified"}, {}},
        category \in {"", "confirmed_start", "likely_start", "doubtful", "ruled_out"},
        groups \in {<<>>, G442, G352}}
    \cup {NewsItem({"official"},
                   [p \in {Names[1], Names[2]} |->
                       IF p = Names[1] THEN {"doubtful", "ruled_out"}
                       ELSE {"likely_start", "doubtful"}],
                   <<<<"4">>, <<"2">>, <<"3">>, <<"1">>>>)}

\* lines 192-200: the insights dict before the loop
ExtractStarts ==
    /\ item_no = 0
    /\ item_no' = 1
    /\ raw_insights' = [likely_starters |-> EmptyDict, doubtful |-> EmptyDict,
                        ruled_out |-> EmptyDict, formation_hints |-> <<>>]
    /\ UNCHANGED <<news_items, lineup_insights, extract_frame>>

\* lines 204-246: one pass of `for item in news_items`
ExtractItem ==
    /\ item_no \in 1..Len(news_items)
    /\ LET item == news_items[item_no]
       IN  raw_insights' =
               [likely_starters |-> bucket_after(raw_insights.likely_starters,
                                                 "likely_starters", item),
                doubtful |-> bucket_after(raw_insights.doubtful, "doubtful", item),
                ruled_out |-> bucket_after(raw_insights.ruled_out, "ruled_out", item),
                formation_hints |-> IF item.formation_groups # <<>>
                                    THEN join_groups(item.formation_groups)
                                    ELSE raw_insights.formation_hints]
    /\ item_no' = item_no + 1
    /\ UNCHANGED <<news_items, lineup_insights, extract_frame>>

\* lines 248-255: threshold filtering and return
ExtractReturns ==
    /\ item_no = Len(news_items) + 1
    /\ lineup_insights = EmptyDict
    /\ lineup_insights' =
           [likely_starters |-> filtered(raw_insights.likely_starters, Pct(50)),
            doubtful |-> filtered(raw_insights.doubtful, Pct(30)),
            ruled_out |-> filtered(raw_insights.ruled_out, Pct(20)),
            formation_hints |-> raw_insights.formation_hints]
    /\ UNCHANGED <<news_items, item_no, raw_insights, extract_frame>>

NextExtract ==
    \/ ExtractStarts
    \/ ExtractItem
    \/ ExtractReturns

InitExtract ==
    /\ AppIdle
    /\ CacheIdle
    /\ FactoryIdle
    /\ LimiterIdle
    /\ news_items \in SeqsUpTo(NewsItems, MaxItems)
    /\ item_no = 0
    /\ raw_insights = EmptyDict
    /\ lineup_insights = EmptyDict

SpecExtract == InitExtract /\ [][NextExtract]_vars

(***************************************************************************)
(* Scoring: a small squad whose last two entries (a young attacker and a   *)
(* young player of unlisted position) meet every combination of injury     *)
(* record, news bucket, recent appearances and form value.                 *)
(***************************************************************************)
ScoreSquad == MkSquad(<<G, G, D, M, A, U>>, {5, 6}, {})

ScoreTargets == {"P05", "P06"}

\* recent line-ups: none, one without the targets, or one with and one without
ScoreLineups ==
    {<<>>,
     <<Lineup(F433, <<"P01", "P03", "P04">>)>>,
     <<Lineup(F433, <<"P01", "P03", "P04", "P05", "P06">>),
       Lineup(F442, <<"P01", "P03">>)>>}

\* no record, one record of each severity of the table (also under the
\* lower-case name), or a record without a severity
ScoreInjuries ==
    {<<>>}
    \cup {<<Injury(n, s)>> : n \in ScoreTargets \cup {"p06"},
                             s \in {"out", "major", "severe", "minor"}}
    \cup {<<[player_name |-> "P06", status |-> "doubtful"]>>}

ScoreNews ==
    {NoNews}
    \cup {News(Insight(ruled, starters, doubts, NoHint), Pct(60), Now0 - 2) :
            ruled \in DictsUpTo(ScoreTargets, {0}, 1),
            starters \in {EmptyDict, [P01 |-> Pct(90)], [P06 |-> Pct(90)]},
            doubts \in {EmptyDict, [P05 |-> ONE]}}

InitScore ==
    /\ predictor = "optimized"
    /\ now = Now0
    /\ squad = ScoreSquad
    /\ recent_lineups \in ScoreLineups
    /\ injuries \in ScoreInjuries
    /\ news_insights \in ScoreNews
    /\ player_form \in DictsUpTo(ScoreTargets \cup {"P01"}, FormValues, MaxFormEntries)
    /\ InitComputed

\* the steps of _build_optimized_prediction
NextOptimized ==
    \/ CalculatePlayerScores
    \/ PredictFormationAdvanced
    \/ SelectOptimalLineup
    \/ CalculateConfidenceBreakdown
    \/ ReturnOptimizedPrediction

SpecScore == InitScore /\ [][NextOptimized]_vars

(***************************************************************************)
(* Availability (basic predictor): up to MaxRecords injury records of any  *)
(* severity or status, under the exact or the lower-case name or for a     *)
(* stranger, together with up to two names in the news bucket ruled_out.   *)
(***************************************************************************)
MaxRecords == 2

AvailabilitySquads == {Squad11, Squad12Mixed, Squad20}

InjuryRecords ==
    {Injury("P01", "out"),
     Injury("p02", "minor"),
     [player_name |-> "P03", status |-> "doubtful"],
     Injury("P21", "severe")}

AvailabilityNews ==
    {NoNews}
    \cup {News(Insight(ruled, EmptyDict, EmptyDict, hint), Pct(60), Now0 - 2) :
            ruled \in DictsUpTo({"P02", "P04", "p05"}, {0}, 2),
            hint \in {NoHint, F343}}

InitAvailability ==
    /\ predictor = "basic"
    /\ now = Now0
    /\ squad \in AvailabilitySquads
    /\ recent_lineups \in {<<>>, <<Lineup(F442, <<"P01", "P02", "P03">>)>>}
    /\ injuries \in SeqsUpTo(InjuryRecords, MaxRecords)
    /\ news_insights \in AvailabilityNews
    /\ player_form = EmptyDict
    /\ InitComputed

\* the steps of _build_lineup_prediction
NextBasic ==
    \/ FilterAvailablePlayers
    \/ PredictFormation
    \/ SelectStartingXI
    \/ CalculateConfidence
    \/ ReturnLineupPrediction

SpecAvailability == InitAvailability /\ [][NextBasic]_vars

(***************************************************************************)
(* Vocabulary of the properties                                            *)
(***************************************************************************)
\* _select_optimal_lineup has returned
OptSelected ==
    /\ predictor = "optimized"
    /\ pc \in {"confidence", "return"} \/ (pc = "done" /\ result.kind = "prediction")

\* _select_starting_xi has returned
BasicSelected ==
    /\ predictor = "basic"
    /\ pc \in {"confidence", "return"} \/ (pc = "done" /\ result.kind = "prediction")

SquadOf(position) == {i \in 1..Len(squad) : Get(squad[i], "position", "") = position}

ScoreAt(i) == Get(player_scores, squad[i].name, 0)

\* squad entry i is ranked before squad entry j: higher score, or the same
\* score and earlier in the squad list
RankedBefore(i, j) == ScoreAt(i) > ScoreAt(j) \/ (ScoreAt(i) = ScoreAt(j) /\ i < j)

\* the n best-ranked squad entries of a position
TopOf(position, n) ==
    {i \in SquadOf(position) :
        Cardinality({j \in SquadOf(position) : RankedBefore(j, i)}) < n}

NamesIn(players) == {players[k].name : k \in 1..Len(players)}

StartersOf(position) ==
    {k \in 1..Len(starting_xi) : Get(starting_xi[k], "position", "") = position}

\* C1: a squad of at least 11 players with a goalkeeper always yields a
\* starting_xi of exactly 11 players.
C1_ElevenStarters ==
    (OptSelected /\ Len(squad) >= XI_SIZE /\ SquadOf(G) # {})
        => Len(starting_xi) = XI_SIZE

\* C2: with a goalkeeper in the squad, starting_xi holds exactly one
\* goalkeeper, the best-ranked one of the squad (highest score, earliest in
\* squad order among equals), also after the backfill.
C2_OneBestGoalkeeper ==
    (OptSelected /\ SquadOf(G) # {})
        => /\ Cardinality(StartersOf(G)) = 1
           /\ \A k \in StartersOf(G) :
                  {starting_xi[k].name} = {squad[i].name : i \in TopOf(G, 1)}

\* the backfill ran with two goalkeepers in the squad and the later one, of
\* higher score, was picked
C2_Witness ==
    /\ OptSelected
    /\ Cardinality(SquadOf(G)) = 2
    /\ \E i, j \in SquadOf(G) : i < j /\ ScoreAt(j) > ScoreAt(i)
                                  /\ starting_xi[1].name = squad[j].name
    /\ Len(picked_by_position(position_group(squad, player_scores, G),
                              position_group(squad, player_scores, D),
                              position_group(squad, player_scores, M),
                              position_group(squad, player_scores, A),
                              needed_optimized(formation))) < XI_SIZE

\* formation D-M-F of three numbers adding up to 10, each bucket of the squad
\* large enough
FormationFitsSquad ==
    /\ Len(formation_parts(formation)) = 3
    /\ \A k \in 1..3 : IsInt(formation_parts(formation)[k])
    /\ LET need == needed_optimized(formation)
       IN  /\ need[1] + need[2] + need[3] = 10
           /\ SquadOf(G) # {}
           /\ Cardinality(SquadOf(D)) >= need[1]
           /\ Cardinality(SquadOf(M)) >= need[2]
           /\ Cardinality(SquadOf(A)) >= need[3]

\* C3: when the formation fits the squad, starting_xi is exactly the best
\* goalkeeper, the D best defenders, the M best midfielders and the F best
\* attackers, ranked by score and then by squad order.
C3_TopOfEachBucket ==
    (OptSelected /\ FormationFitsSquad)
        => LET need == needed_optimized(formation)
           IN  /\ Len(starting_xi) = XI_SIZE
               /\ NamesIn(starting_xi) =
                      {squad[i].name : i \in TopOf(G, 1) \cup TopOf(D, need[1])
                                            \cup TopOf(M, need[2]) \cup TopOf(A, need[3])}

\* a formation other than the default, and a defender who is picked ahead of
\* defenders listed before him because his form lifts his score
C3_Witness ==
    /\ OptSelected /\ FormationFitsSquad
    /\ formation = F343
    /\ \E i, j \in SquadOf(D) :
           /\ i < j /\ ScoreAt(j) > ScoreAt(i)
           /\ squad[j].name \in NamesIn(starting_xi)
           /\ squad[i].name \notin NamesIn(starting_xi)

\* C4: no player is both in starting_xi and in substitutes of a returned
\* prediction, for either predictor.
C4_Disjoint ==
    (pc = "done" /\ result.kind = "prediction")
        => \A i \in 1..Len(result.value.starting_xi) :
               \A j \in 1..Len(result.value.substitutes) :
                   result.value.starting_xi[i].name # result.value.substitutes[j].name

\* a prediction with a full bench, from a formation asking for more than ten
\* outfield players
C4_Witness ==
    /\ pc = "done" /\ result.kind = "prediction"
    /\ formation = F555
    /\ Len(result.value.starting_xi) = XI_SIZE
    /\ Len(result.value.substitutes) > 0

\* C5: with a news confidence within [0, 1] and a last_update that is not in
\* the future, the confidence of either predictor lies within [0, 0.95].
C5_ConfidenceBounded ==
    (/\ pc \in {"return", "done"}
     /\ result.kind # "raised"
     /\ Get(news_insights, "confidence", 0) \in 0..ONE
     /\ Get(news_insights, "last_update", now) <= now)
        => IF predictor = "optimized"
           THEN confidence_breakdown["overall"] \in 0..Pct(95)
           ELSE confidence \in 0..Pct(95)

\* every source present, the news certain and fresh: the optimized overall
\* confidence is at its largest, 0.94
C5_Witness ==
    /\ predictor = "optimized" /\ pc = "return"
    /\ Len(squad) >= 20 /\ Len(recent_lineups) >= 3 /\ Truthy(injuries)
    /\ Truthy(player_form)
    /\ Get(news_insights, "confidence", 0) = ONE
    /\ Get(news_insights, "last_update", now - 1) = now
    /\ confidence_breakdown["overall"] = Pct(94)

RuledOutNames == DOMAIN Get(Get(news_insights, "insights", EmptyDict), "ruled_out", EmptyDict)

\* C6: a squad player in the ruled_out bucket is not in starting_xi whenever
\* another player of his position, with score > 0, is left out of starting_xi.
C6_RuledOutExcluded ==
    OptSelected
        => \A i \in 1..Len(squad) :
               (/\ squad[i].name \in RuledOutNames
                /\ \E j \in SquadOf(squad[i].position) :
                       /\ j # i
                       /\ ScoreAt(j) > 0
                       /\ squad[j].name \notin NamesIn(starting_xi))
                   => squad[i].name \notin NamesIn(starting_xi)

(***************************************************************************)
(* C7: the scores and the ranking of the defenders without the injury      *)
(* records                                                                 *)
(***************************************************************************)
UninjuredScores ==
    _calculate_player_scores(squad, recent_lineups, <<>>, news_insights, player_form)

\* the number of defenders ranked before squad entry i under the scores sc
DefenderRank(sc, i) ==
    Cardinality({j \in SquadOf(D) :
        \/ sc[squad[j].name] > sc[squad[i].name]
        \/ sc[squad[j].name] = sc[squad[i].name] /\ j < i})

\* the first injury record that matches squad entry i says injured, severe
SeverelyInjured(i) ==
    /\ \E k \in 1..Len(injuries) : Lower(injuries[k].player_name) = Lower(squad[i].name)
    /\ LET first == CHOOSE k \in 1..Len(injuries) :
                        /\ Lower(injuries[k].player_name) = Lower(squad[i].name)
                        /\ \A m \in 1..(k - 1) :
                               Lower(injuries[m].player_name) # Lower(squad[i].name)
       IN  /\ Get(injuries[first], "severity", "") = "severe"
           /\ Get(injuries[first], "status", "") = "injured"

DefendersNeeded == needed_optimized(formation)[1]

\* under the scores sc, defender i is among the top D of a squad of more than
\* D defenders and has a severe injury
InjuredTopDefender(sc, i) ==
    /\ SeverelyInjured(i)
    /\ Cardinality(SquadOf(D)) > DefendersNeeded
    /\ DefenderRank(sc, i) < DefendersNeeded

\* under the scores sc, defender j is ranked D+1
NextDefender(sc, j) == DefenderRank(sc, j) = DefendersNeeded

FilledByPosition ==
    LET need == needed_optimized(formation)
    IN  Min(1, Cardinality(SquadOf(G))) + Min(need[1], Cardinality(SquadOf(D)))
        + Min(need[2], Cardinality(SquadOf(M))) + Min(need[3], Cardinality(SquadOf(A)))
            >= XI_SIZE

FormationPredicted == pc \in {"select", "confidence", "return", "done"}

\* the formations of the recent line-ups that carry one, oldest first
RecentFormations ==
    [k \in 1..Cardinality({i \in 1..Len(recent_lineups) :
                              Get(recent_lineups[i], "formation", <<>>) # <<>>}) |->
        LET carriers == {i \in 1..Len(recent_lineups) :
                            Get(recent_lineups[i], "formation", <<>>) # <<>>}
            at == CHOOSE i \in carriers : Cardinality({j \in carriers : j < i}) = k - 1
        IN  recent_lineups[at].formation]

Hint == Get(Get(news_insights, "insights", EmptyDict), "formation_hints", <<>>)

\* C8: a formation hint is returned as it is, whatever the recent line-ups
\* show; without a hint the result is a formation of the recent line-ups when
\* there is one, and the default "4-3-3" only when there is none.
C8_HintFirst ==
    FormationPredicted
        => /\ Hint # <<>> => formation = Hint
           /\ (Hint = <<>> /\ RecentFormations # <<>>) => formation \in Range(RecentFormations)
           /\ (Hint = <<>> /\ RecentFormations = <<>>) => formation = F433

\* the hint "3-4-3" wins over recent line-ups that all show "4-3-3", in both
\* predictors' formation step
C8_Witness ==
    /\ FormationPredicted
    /\ Hint = F343
    /\ Len(recent_lineups) = 3
    /\ \A i \in 1..3 : Get(recent_lineups[i], "formation", <<>>) = F433
    /\ formation = F343

\* the recency-weighted count of formation f: the k-th oldest counts k
WeightedCount(f) ==
    LET ks == {k \in 1..Len(RecentFormations) : RecentFormations[k] = f}
    IN  SumSeq([n \in 1..Len(RecentFormations) |-> IF n \in ks THEN n ELSE 0])

\* the position of the newest line-up showing formation f
NewestOf(f) ==
    CHOOSE k \in 1..Len(RecentFormations) :
        RecentFormations[k] = f /\ \A m \in (k + 1)..Len(RecentFormations) : RecentFormations[m] # f

\* C9: without a hint the optimized predictor returns a formation of maximal
\* recency-weighted count and, among those, the one met first from the newest
\* line-up backwards; ["4-4-2", "4-4-2", "4-3-3"] yields "4-3-3".
C9_WeightedMode ==
    (predictor = "optimized" /\ FormationPredicted /\ Hint = <<>> /\ RecentFormations # <<>>)
        => /\ \A f \in Range(RecentFormations) :
                  \/ WeightedCount(formation) > WeightedCount(f)
                  \/ /\ WeightedCount(formation) = WeightedCount(f)
                     /\ NewestOf(formation) >= NewestOf(f)
           /\ RecentFormations = <<F442, F442, F433>> => formation = F433

\* the tie: "4-4-2" twice, then "4-3-3", counts 3 against 3
C9_Witness ==
    /\ predictor = "optimized" /\ FormationPredicted /\ Hint = <<>>
    /\ RecentFormations = <<F442, F442, F433>>
    /\ WeightedCount(F442) = WeightedCount(F433)
    /\ formation = F433

\* nothing but a squad: no injuries, no news, no recent line-ups, no form
OnlySquad ==
    /\ Len(squad) > 0
    /\ injuries = <<>> /\ ~Truthy(news_insights)
    /\ recent_lineups = <<>> /\ ~Truthy(player_form)

\* C10 as claimed: from a squad alone, either predictor returns a prediction
\* of formation "4-3-3" whose data_sources flags are all false.
C10_AllSourcesFalse ==
    (pc = "done" /\ OnlySquad)
        => /\ result.kind = "prediction"
           /\ result.value.formation = F433
           /\ \A k \in DOMAIN result.value.data_sources : ~result.value.data_sources[k]

\* C10 amended: the flags other than squad_data are false, squad_data is true.
C10_OnlySquadDataTrue ==
    (pc = "done" /\ OnlySquad)
        => /\ result.kind = "prediction"
           /\ result.value.formation = F433
           /\ \A k \in DOMAIN result.value.data_sources :
                  result.value.data_sources[k] = (k = "squad_data")

\* a prediction returned from a squad alone, by the optimized predictor
C10_Witness ==
    /\ pc = "done" /\ OnlySquad
    /\ predictor = "optimized"
    /\ result.kind = "prediction"
    /\ Len(result.value.starting_xi) > 0

(***************************************************************************)
(* C14: the formation field of a returned prediction                       *)
(***************************************************************************)
\* a string of exactly three dash-separated integers
ThreeIntegers(f) ==
    /\ Len(formation_parts(f)) = 3
    /\ \A k \in 1..3 : IsInt(formation_parts(f)[k])

\* C14: the formation of every prediction the optimized pipeline returns,
\* for a hint the news extractor can emit, is three dash-separated integers
\* D-M-F with D + M + F <= 10.
C14_FormationWellFormed ==
    (predictor = "optimized" /\ pc = "done" /\ result.kind = "prediction"
        /\ Hint \in formation_hints_emitted)
        => /\ ThreeIntegers(result.value.formation)
           /\ LET need == needed_optimized(result.value.formation)
              IN  need[1] + need[2] + need[3] <= 10

(***************************************************************************)
(* C15: the substitutes of the optimized selection                         *)
(***************************************************************************)
\* the squad entries that are in neither list
LeftOut ==
    {i \in 1..Len(squad) : squad[i].name \notin NamesIn(starting_xi) \cup NamesIn(substitutes)}

\* C15: the substitutes are the next best players after the starting XI:
\* min(7, players of the squad not in starting_xi) of them, none of a lower
\* score than a squad player left out of both lists.
C15_BenchNextBest ==
    OptSelected
        => /\ Len(substitutes) =
                  Min(BENCH_SIZE, Cardinality(NamesOf(squad) \ NamesIn(starting_xi)))
           /\ \A k \in 1..Len(substitutes) : \A i \in LeftOut :
                  substitutes[k].selection_score >= ScoreAt(i)

(***************************************************************************)
(* C16: squads of fewer than 11 players                                    *)
(***************************************************************************)
\* C16: from a squad of fewer than 11 players the starting_xi of the
\* optimized selection is the whole squad, whatever the formation.
C16_SmallSquadAllStart ==
    (OptSelected /\ Len(squad) < XI_SIZE)
        => /\ Len(starting_xi) = Len(squad)
           /\ NamesIn(starting_xi) = NamesOf(squad)

(***************************************************************************)
(* C17: formation strings that are not three integers                      *)
(***************************************************************************)
\* the selection step is over: it returned or it raised
SelectionOver == pc \in {"confidence", "return", "done"}

\* C17: on a formation that is not three dash-separated integers neither
\* selection fails, and both select as for 4 defenders, 3 midfielders and 3
\* attackers.
C17_DefaultOnUnparsable ==
    (SelectionOver /\ ~ThreeIntegers(formation))
        => /\ result.kind # "raised"
           /\ predictor = "optimized"
                  => <<starting_xi, substitutes>>
                         = _select_optimal_lineup(player_scores, F433, squad)
           /\ predictor = "basic"
                  => starting_xi = _select_starting_xi(available_players, F433)

(***************************************************************************)
(* C18: goalkeepers in the starting XI of the basic predictor              *)
(***************************************************************************)
\* C18: the starting XI of LineupPredictor._select_starting_xi holds at most
\* one goalkeeper, also when it is backfilled.
C18_AtMostOneGoalkeeper ==
    BasicSelected => Cardinality(StartersOf(G)) <= 1

(***************************************************************************)
(* C11: when predict_lineup returns an error                               *)
(***************************************************************************)
\* the squad fetch of the last call delivered a non-empty squad
SquadFetched == tasks["squad"].state = "done" /\ tasks["squad"].value # <<>>

\* the last call has returned an error dict
ErrorReturned == cpc = "idle" /\ calls > 0 /\ "error" \in DOMAIN outcome

\* C11: predict_lineup, of either predictor, returns an error only when the
\* squad fetch failed or delivered an empty squad, whatever the flags, the
\* fixture id and the outcomes of the other fetches.
C11_ErrorOnlyWithoutSquad == ErrorReturned => ~SquadFetched

(***************************************************************************)
(* C12: persistence failures in get_prediction                             *)
(***************************************************************************)
\* C12: get_prediction never raises: on a cache miss a failure of the cache
\* write or of the repository write leaves the computed prediction returned.
C12_WriteFailuresNotPropagated == svc_result.kind # "raised"

(***************************************************************************)
(* C13: which requests a cached prediction is served to                    *)
(***************************************************************************)
\* C13: a result served from prediction_cache goes only to a request equal,
\* in team, fixture id and all four flags, to the request that computed it.
C13_CacheServesSameRequest ==
    \A i \in 1..Len(returned) :
        returned[i].hit => heap[returned[i].ref].origin = returned[i].request

(***************************************************************************)
(* C19: predictions already returned                                       *)
(***************************************************************************)
\* C19: a prediction handed to a caller is never modified by a later call:
\* what the caller reads through its reference stays what it was handed.
C19_ReturnedNeverModified ==
    \A i \in 1..Len(returned) : heap[returned[i].ref].data = returned[i].value

(***************************************************************************)
(* C20: fetches and the start of the build                                 *)
(***************************************************************************)
\* _build_optimized_prediction has been called by predict_lineup
BuildStarted == predictor = "optimized" /\ cpc = "build"

\* C20: when _build_optimized_prediction starts, and for as long as it
\* scores and selects, no fetch of the request is pending: each one started
\* has completed or raised, and its result or its default has been taken.
C20_BuildAfterFetches ==
    BuildStarted => \A f \in TaskNames : tasks[f].state # "pending"

\* the players are scored in a call that ran all seven fetches
C20_Witness ==
    /\ BuildStarted
    /\ pc = "formation"
    /\ \A f \in TaskNames : tasks[f].state = "done" /\ ~tasks[f].placeholder

\* a get_prediction call has come back to its caller
ServiceCallOver == spc = "idle" /\ svc_calls > 0

\* C21: get_prediction first reads the cache under "prediction:" + the
\* lowercased team name; a hit is returned marked cached after that read
\* alone, a miss is returned unmarked after exactly one fetch, one cache write
\* of the unmarked result and one repository record, in that order.
C21_LookupFetchStoreRecord ==
    ServiceCallOver =>
        /\ svc_result.kind = "prediction"
        /\ IF svc_result.value.cached
           THEN svc_trace = <<"cache.get">>
           ELSE /\ svc_trace = <<"cache.get", "_fetch_from_api", "cache.set",
                                 "prediction_repo.create">>
                /\ svc_cache[service_cache_key(team_name)] = svc_result.value

\* C22: the team of the prediction get_prediction returns is the team_name it
\* was called with.
C22_TeamIsArgument ==
    (ServiceCallOver /\ svc_result.kind = "prediction") =>
        svc_result.value.team = team_name

\* the last set call on the key that the last get read, if the key was not
\* deleted or cleared since
SetBeforeGet == last_set[cache_op.key]

\* C23: a get returns the value of the last set on its key at every time up
\* to that set's time + ttl, unless the key was deleted or cleared since, and
\* None later, when the entry is also gone from the store; a set leaves the
\* key with its own value and expiry.
C23_TtlEnforced ==
    /\ (cache_op.op = "get" /\ cache_op.key \in DOMAIN last_set) =>
           IF cache_op.at <= SetBeforeGet.time + SetBeforeGet.ttl
           THEN cache_op.ret = SetBeforeGet.value
           ELSE cache_op.ret = None /\ cache_op.key \notin DOMAIN _cache
    /\ cache_op.op = "set" =>
           _cache[cache_op.key] = [value |-> cache_op.value,
                                   expiry_time |-> cache_op.at + cache_op.ttl]

\* a get found the entry expired, after the key had been set a second time
\* with another value and a later expiry
C23_Witness ==
    /\ cache_op.op = "get"
    /\ cache_op.key \in DOMAIN last_set
    /\ cache_op.ret = None
    /\ SetBeforeGet.time > 0
    /\ cache_op.at > SetBeforeGet.time + SetBeforeGet.ttl

\* a get at the expiry instant itself returned the value
C23_AtExpiryWitness ==
    /\ cache_op.op = "get"
    /\ cache_op.key \in DOMAIN last_set
    /\ cache_op.at = SetBeforeGet.time + SetBeforeGet.ttl
    /\ cache_op.ret = SetBeforeGet.value

\* the get_cache call ran with no reset_cache call begun or unfinished
\* between its entry and its return
BetweenResets(call) ==
    /\ call.entered = call.left
    /\ call.left.begun = call.left.finished

\* C24: get_cache calls made between the same two reset_cache calls return
\* one and the same cache object, and a get_cache call made after a later
\* reset_cache returns another object.
C24_OneInstanceBetweenResets ==
    \A i, j \in DOMAIN got_cache :
        (BetweenResets(got_cache[i]) /\ BetweenResets(got_cache[j])) =>
            /\ got_cache[i].left = got_cache[j].left =>
                   got_cache[i].instance = got_cache[j].instance
            /\ got_cache[i].left.begun < got_cache[j].left.begun =>
                   got_cache[i].instance # got_cache[j].instance

\* the requests admitted so far
Admitted == {d \in decisions : d.is_allowed}

\* the admitted requests whose timestamps lie in the window that ends at t
AdmittedInWindow(t) == {d \in Admitted : t - window < d.now /\ d.now <= t}

\* the is_allowed call that decided d has returned
Decided(d) == \A c \in LimiterCallers :
                  requests[c] = Idle \/ requests[c].request_id # d.request_id

\* C25: a request is admitted exactly when fewer than `limit` entries lay
\* within the `window` seconds before it when it was added; the entry of a
\* denied request is gone when its call returns; and no window holds more
\* than `limit` admitted requests, however the calls interleave.
C25_NeverOverLimit ==
    /\ \A d \in decisions : d.is_allowed <=> d.within < limit
    /\ \A d \in decisions :
           (~d.is_allowed /\ Decided(d)) => \A e \in zset : e.member # d.request_id
    /\ \A t \in 0..MaxUnixTime : Cardinality(AdmittedInWindow(t)) <= limit

\* _extract_lineup_insights_optimized has returned
Extracted == lineup_insights # EmptyDict

\* the news items with a formation pattern in their content
MatchingItems == {i \in 1..Len(news_items) : news_items[i].formation_groups # <<>>}

\* C26: the formation hint of the returned insight is the formation of the
\* first news item, in list order, that matches a formation pattern.
C26_FirstMatchWins ==
    (Extracted /\ MatchingItems # {}) =>
        LET first == CHOOSE i \in MatchingItems : \A j \in MatchingItems : i <= j
        IN  lineup_insights.formation_hints = join_groups(news_items[first].formation_groups)

\* C29: the returned insight has no doubtful and no ruled_out entry, whatever
\* the news items and their sources.
C29_DoubtfulAndRuledOutEmpty ==
    Extracted =>
        /\ lineup_insights.doubtful = EmptyDict
        /\ lineup_insights.ruled_out = EmptyDict

\* an official item put a player at the doubtful weight itself and in the
\* ruled_out bucket, another player survived as a likely starter
C29_Witness ==
    /\ Extracted
    /\ \E p \in DOMAIN raw_insights.doubtful : raw_insights.doubtful[p] = Pct(30)
    /\ raw_insights.ruled_out # EmptyDict
    /\ lineup_insights.likely_starters # EmptyDict


\* _calculate_player_scores has returned
ScoresComputed ==
    /\ predictor = "optimized"
    /\ pc \in {"formation", "select", "confidence", "return"}

\* the first injury record that matches squad entry i by case-insensitive
\* name, or 0
FirstRecord(i) ==
    LET hits == {k \in 1..Len(injuries) :
                    Lower(Get(injuries[k], "player_name", "")) = Lower(squad[i].name)}
    IN  IF hits = {} THEN 0 ELSE CHOOSE k \in hits : \A j \in hits : k <= j

\* what the score of squad entry i owes to the factors other than the injury
OtherFactors(i) ==
    Weighted(15, position_importance(Get(squad[i], "position", "")))
    + Weighted(25, _calculate_appearance_rate(squad[i].name, recent_lineups))
    + Weighted(20, Get(player_form, squad[i].name, Pct(50)))
    + Weighted(15, _calculate_news_score(squad[i].name, news_insights))
    + Weighted(5, age_factor(squad[i]))

\* the injury impact that went into the score of squad entry i
ImpactIn(i) == player_scores[squad[i].name] - OtherFactors(i)

StatedSeverities == {"out", "major", "severe", "minor"}

StatedImpact(severity) ==
    CASE severity = "out"    -> 0
      [] severity = "major"  -> Pct(20)
      [] severity = "severe" -> Pct(20)
      [] severity = "minor"  -> Pct(70)

\* C27: the injury impact of a player matched to an injury record by
\* case-insensitive name is 0.0 for severity out, 0.2 for major or severe and
\* 0.7 for minor; it is 1.0 for a player with no injury record.
C27_ImpactBySeverity ==
    ScoresComputed =>
        \A i \in 1..Len(squad) :
            IF FirstRecord(i) = 0
            THEN ImpactIn(i) = Weighted(20, ONE)
            ELSE LET severity == Get(injuries[FirstRecord(i)], "severity", "minor")
                 IN  severity \in StatedSeverities
                        => ImpactIn(i) = Weighted(20, StatedImpact(severity))


\* squad entry i is ruled out by the news, carries an injury record of
\* severity out and played in none of the recent line-ups
WorstCase(i) ==
    /\ squad[i].name \in DOMAIN Get(Get(news_insights, "insights", EmptyDict),
                                    "ruled_out", EmptyDict)
    /\ FirstRecord(i) # 0
    /\ Get(injuries[FirstRecord(i)], "severity", "minor") = "out"
    /\ recent_lineups # <<>>
    /\ _calculate_appearance_rate(squad[i].name, recent_lineups) = 0

ListedPositions == {G, D, M, A}

\* C28: with form values in [0, 1] every squad player's composite score is
\* at least 0.12 and at most 1, also for a player ruled out by news with
\* injury severity out and no recent appearances; so the `score > 0` filter
\* of _select_optimal_lineup removes nobody: every player of a listed
\* position of this six-man squad is a starter or a substitute.
C28_ScoreBounds ==
    /\ ScoresComputed =>
          \A i \in 1..Len(squad) :
              /\ Pct(12) <= player_scores[squad[i].name]
              /\ player_scores[squad[i].name] <= ONE
    /\ OptSelected =>
          \A i \in 1..Len(squad) :
              squad[i].position \in ListedPositions
                  => squad[i].name \in NamesIn(starting_xi) \cup NamesIn(substitutes)

\* the lineup is selected and the player of unlisted position, in the worst
\* case with form 0, scores exactly 0.12
C28_Witness ==
    /\ OptSelected
    /\ WorstCase(6)
    /\ Get(player_form, "P06", Pct(50)) = 0
    /\ player_scores["P06"] = Pct(12)


\* the filter loop of _build_lineup_prediction has run
BasicFiltered == predictor = "basic" /\ pc # "start"

\* _build_lineup_prediction has returned
BasicReturned == predictor = "basic" /\ pc = "done" /\ result.kind = "prediction"

\* squad entry i is named, letter for letter, in the news bucket ruled_out
NamedRuledOut(i) ==
    squad[i].name \in DOMAIN Get(Get(news_insights, "insights", EmptyDict),
                                 "ruled_out", EmptyDict)

ListedUnavailable(i) ==
    \E k \in 1..Len(unavailable_players) : unavailable_players[k].player = squad[i]

\* C30: in the basic predictor every squad player with an injury record
\* (name matched without regard to case, whatever its severity or status) or
\* named in the news bucket ruled_out is listed in unavailable and is neither
\* a starter nor a substitute, also when fewer than 11 players remain; every
\* other squad player is eligible, and with at most 18 eligible players each
\* of them is a starter or a substitute of the returned prediction.
C30_UnavailableExcluded ==
    BasicFiltered =>
        \A i \in 1..Len(squad) :
            IF FirstRecord(i) # 0 \/ NamedRuledOut(i)
            THEN /\ ListedUnavailable(i)
                 /\ ~InList(squad[i], available_players)
                 /\ ~InList(squad[i], starting_xi)
                 /\ ~InList(squad[i], substitutes)
            ELSE /\ ~ListedUnavailable(i)
                 /\ InList(squad[i], available_players)
                 /\ (BasicReturned /\ Len(available_players) <= XI_SIZE + BENCH_SIZE)
                        => (InList(squad[i], starting_xi) \/ InList(squad[i], substitutes))

\* a prediction is returned with fewer than 11 starters; one player is out
\* through a record under the lower-case name, another through the news only
C30_Witness ==
    /\ BasicReturned
    /\ Len(starting_xi) < XI_SIZE
    /\ \E i, j \in 1..Len(squad) :
          /\ FirstRecord(i) # 0
          /\ injuries[FirstRecord(i)].player_name # squad[i].name
          /\ FirstRecord(j) = 0 /\ NamedRuledOut(j)
          /\ ListedUnavailable(i) /\ ListedUnavailable(j)

====
